---- MODULE Spec2Model ----
(***************************************************************************)
(* Model of the asynchronous logging pipeline of SP_COURSE_WORK.           *)
(*                                                                         *)
(* Logger (Logger.cpp): a bounded queue of records, guarded by m_mutex and *)
(* m_cv, filled by producer threads through log() under an OverflowPolicy  *)
(* and drained by one dispatch thread (writerLoop) that hands batches to   *)
(* the registered sinks.  A control thread calls start(), addSink(),       *)
(* removeSink(), flush() and shutdown().                                   *)
(*                                                                         *)
(* FileLogger (FileLogger.cpp, the sink writing to a file): an internal    *)
(* queue of serialized lines filled by consume(), drained by its own       *)
(* writer thread (writerLoop) into a buffer that is written to disk, and   *)
(* flush().  The Logger and the FileLogger are followed separately: the    *)
(* specifications of the one leave the variables of the other alone.       *)
(*                                                                         *)
(* Granularity: a critical section of m_mutex that contains no wait is one *)
(* action (guard m_mutex = Free).  Everything the code does outside the    *)
(* mutex (the atomics active_batches, stop state, m_running, the calls to  *)
(* the sinks) is a step of its own.  The dispatch thread's acquisition of  *)
(* the mutex is a step of its own as well, so that the owner of the mutex  *)
(* is visible while the thread is inside its critical section.             *)
(***************************************************************************)
EXTENDS Integers, Sequences, FiniteSets

\* ------------------------------------------------------------- bounds
\* Number of producer threads calling log().
NumProducers == 1
\* Number of records that are ever submitted (record ids 1..MaxRecords).
MaxRecords == 3
\* The Logger is constructed with m_maxQueue in 1..MaxQueueCap.
MaxQueueCap == 2
\* Number of distinct sink objects.
NumSinks == 2
\* kMaxBatch, kFinalBatchSize: 128 in the source, scaled down so that the
\* batch limit binds within MaxQueueCap.
kMaxBatch == 1
kFinalBatchSize == 1
\* Number of lines that are ever handed to FileLogger::consume (line ids
\* 1..MaxLines), and the largest batch of one call.
MaxLines == 4
MaxBatchLines == 2
\* EventLogSink: the number of threads of the pool that runs the recurring
\* task, the number of runs of the task that can be queued at a time, the
\* number of records ever handed to consume() and the largest batch.
NumPoolThreads == 2
MaxTasks == 2
MaxEventLines == 4
MaxEventBatch == 2
\* EventLogSink::consume, lines 227-228 (10000 lines and 100 MiB in the
\* source), the length of a line in bytes and in wide characters, and the
\* largest batch the writer pops (64 in the source, lines 276 and 426).
MAX_QUEUE_SIZE == 2
MAX_QUEUE_MEMORY == 8
EventLineLen == 1
kEventBatch == 1
\* m_current_queue_memory is an unsigned integer: arithmetic modulo this.
MemModulus == 32
\* sizeof(wchar_t) on Windows.
sizeof_wchar_t == 2
\* size() of a std::wstring that has been moved from (line 246 reads it after
\* the std::move of line 245).
MovedFromLen == 0
\* EventLogSink::processBatch: the largest batch (64 in the source) and the
\* number of lines ever passed to it.
MaxSendBatch == 2
MaxSendLines == 2
\* A message holds at most MaxMsgChars characters.
MaxMsgChars == 3
\* EventLogSink::kMaxPayloadBytes (61440 in the source) and the 128 bytes
\* that line 210 keeps free below it, scaled down so that the cut falls
\* inside the message of a serialized line.
kMaxPayloadBytes == 52
kTruncateReserve == 22
\* FileLogger::m_maxFileBytes and m_rotateCount, constructor arguments, range
\* over 1..MaxFileBytesCap and 0..MaxRotateCount.
MaxFileBytesCap == 3
MaxRotateCount == 2
\* FileLogger::writeBufferToDisk: the largest chunk of one WriteFile call (64
\* KiB in the source), the largest buffer handed to it and the number of bytes
\* ever handed to it.
kMaxSingleWrite == 2
MaxBufferBytes == 3
MaxDiskBytes == 5
\* The readings of the system clock are 0..MaxTime.
MaxTime == 2
\* FileLogger::m_flushThresholdBytes, a constructor argument.
m_flushThresholdBytes == 30
\* Lengths in bytes of the serialized lines (LogRecord::toNDJsonLine): a
\* short one and a long one.
ShortLine == 20
LongLine == 150

\* ------------------------------------------------------------- names
Producers == 1..NumProducers
\* Thread ids of the control thread and of the dispatch thread (m_worker).
Ctl == NumProducers + 1
Writer == NumProducers + 2
\* Threads that can execute log(): the producers, and the control thread
\* (shutdown(true) logs "Logger shutdown").
Loggers == Producers \cup {Ctl}
Sinks == 1..NumSinks
\* Sink 1 is a sink whose consume() may throw; the other sinks never throw.
Faulty == {1}
\* m_mutex is the set of threads owning the mutex: empty or one thread.
Free == {}
HeldBy(t) == {t}
OverflowPolicy == {"DropOldest", "DropNewest", "Block"}
\* enum class LogLevel
Trace == 0
Debug == 1
Info == 2
Warn == 3
Error == 4
Critical == 5
LogLevel == Trace..Critical
\* The level of a thread that is not at the entry of log().
NoLevel == Critical + 1
LoggingProfile == {"Weak", "Medium", "Strong"}

VARIABLES
    m_maxQueue,         \* Logger::m_maxQueue
    m_policy,           \* Logger::m_policy
    m_profile,          \* Logger::m_profile
    m_queue,            \* Logger::m_queue, a sequence of record ids
    m_atomicQueueSize,  \* Logger::m_atomicQueueSize
    m_droppedCount,     \* Logger::m_droppedCount
    m_sinks,            \* Logger::m_sinks, in registration order
    m_running,          \* Logger::m_running
    stop_requested,     \* stop state of m_worker's stop_token
    active_batches,     \* Logger::active_batches
    m_mutex,            \* owner of Logger::m_mutex: Free or HeldBy(thread)
    waiters,            \* threads blocked inside m_cv.wait / wait_for
    pc,                 \* position of each producer and of the control thread
    rec,                \* the record a thread blocked in log() carries
    w_pc,               \* position of the dispatch thread
    batch,              \* writerLoop: batch
    sinks_copy,         \* writerLoop: sinks_copy
    w_idx,              \* processBatchWithSinks: position in sinks
    w_final,            \* TRUE while inside processRemainingRecords' loop body
    c_sink,             \* removeSink: the sink being removed
    c_flush,            \* shutdown: the flush argument
    c_idx,              \* flushAllSinks: position in its sinks_copy
    f_sinks,            \* flushAllSinks: sinks_copy
    detached,           \* shutdown timed out and detached m_worker
    nextRec,            \* id of the next record log() constructs
    \* ---- history (observations, never read by the program)
    admitted,           \* records appended to m_queue, in order
    evicted,            \* records popped by the DropOldest loop
    called,             \* sinks whose consume() was called with the current batch
    threw,              \* sinks whose consume() threw on the current batch
    handed,             \* records passed to consume() of every sink of their snapshot
    loops,              \* number of dispatch threads start() has spawned
    lvl,                \* the level argument of a log() call that has been
                        \* entered and has not reached its filter yet
    atShutdown          \* records admitted when the shutdown(true) or flush() in
                        \* progress was called

\* The FileLogger.  A line is <<id, size>>: its identity and its length in
\* bytes.
VARIABLES
    file_queue,             \* FileLogger::m_queue, a sequence of lines
    file_currentQueueSize,  \* FileLogger::m_currentQueueSize
    file_dropped,           \* FileLogger::m_dropped
    file_running,           \* FileLogger::m_running
    file_immediate,         \* FileLogger::m_immediate_flush_requested
    local_buffer,           \* writerLoop: local_buffer, the lines appended to it
    immediate_flush,        \* writerLoop: immediate_flush
    fw_pc,                  \* position of the FileLogger's writer thread
    ff_pc,                  \* position of the thread calling FileLogger::flush
    nextLine,               \* id of the next line consume() serializes
    \* ---- history (observations, never read by the program)
    file_written,           \* lines written to disk by writeBufferToDisk, in order
    file_evicted,           \* number of lines popped by the loop of consume()
    ff_atCall,              \* ids of the lines accepted and neither written nor
                            \* lost when the flush() in progress was called
    ff_completed,           \* the value of `completed` in the latest flush()
    \* ---- FileLogger::close
    file_stop,              \* the stop token of m_worker has been requested
    file_mutex,             \* "close" while close() holds FileLogger::m_mutex
                            \* from one step to the next, "free" otherwise
    joinable,               \* m_worker.joinable()
    fc_pc,                  \* position of the thread calling close()
    final_data,             \* close: final_data, the lines appended to it
    fc_repeated,            \* history: a later close() has returned at line 551
    \* ---- a consume() that runs while close() does
    cons_pc,                \* "idle", or "serialized": m_running has been read
                            \* as true (line 192) and m_mutex not yet taken
    cons_lines              \* consume: lines

loggerVars ==
    <<m_maxQueue, m_policy, m_profile, lvl, loops, m_queue, m_atomicQueueSize,
      m_droppedCount, m_sinks, m_running, stop_requested, active_batches,
      m_mutex, waiters, pc, rec, w_pc, batch, sinks_copy, w_idx, w_final,
      c_sink, c_flush, c_idx, f_sinks, detached, nextRec, admitted, evicted,
      called, threw, handed, atShutdown>>

closeVars ==
    <<file_stop, file_mutex, joinable, fc_pc, final_data, fc_repeated,
      cons_pc, cons_lines>>

fileVars ==
    <<file_queue, file_currentQueueSize, file_dropped, file_running,
      file_immediate, local_buffer, immediate_flush, fw_pc, ff_pc, nextLine,
      file_written, file_evicted, ff_atCall, ff_completed, closeVars>>

\* FileLogger::writeBufferToDisk and the files of the log directory.  An
\* archival file is [n, name, mtime]: the number of the rotation that made it
\* (history), its name (the time in its name and whether ".unique" was
\* appended) and its last-write time.
VARIABLES
    m_maxFileBytes,         \* FileLogger::m_maxFileBytes
    m_rotateCount,          \* FileLogger::m_rotateCount
    m_fileHandle,           \* TRUE: a handle, FALSE: INVALID_HANDLE_VALUE
    m_currentFileBytes,     \* FileLogger::m_currentFileBytes
    remaining,              \* writeBufferToDisk: remaining
    wb_pc,                  \* position inside writeBufferToDisk
    activeSize,             \* length of the active file on disk
    activeMtime,            \* last-write time of the active file
    archives,               \* the archival files in the log directory
    now,                    \* the system clock
    \* ---- history (observations, never read by the program)
    attempts,               \* WriteFile calls of the current chunk
    lastError,              \* class of the error of the current chunk
    rotations,              \* number of successful renames of rotateFile
    deleted,                \* archival files deleted by cleanupOldFiles
    handedBytes,            \* bytes handed to writeBufferToDisk so far
    totalWritten,           \* bytes written by successful WriteFile calls
    faults,                 \* some call of the operating system has failed
    wb_result               \* the latest return value of writeBufferToDisk

diskVars ==
    <<m_maxFileBytes, m_rotateCount, m_fileHandle, m_currentFileBytes,
      remaining, wb_pc, activeSize, activeMtime, archives, now, attempts,
      lastError, rotations, deleted, handedBytes, totalWritten, faults,
      wb_result>>

\* The EventLogSink (EventLogSink.h lines 95-504).  A line is the number of
\* the record it was serialized from.  A writer context is the sink's own
\* thread (context 1, when no thread manager was given) or a thread of the
\* pool that runs the recurring task.
VARIABLES
    ev_pool,                \* m_threadManager != nullptr
    ev_queue,               \* EventLogSink::m_queue
    ev_memory,              \* EventLogSink::m_current_queue_memory
    ev_dropped,             \* EventLogSink::m_dropped
    ev_running,             \* EventLogSink::m_running
    ev_immediate,           \* EventLogSink::m_immediate_flush_requested
    m_tasks,                \* StdThreadPool::m_tasks: queued runs of the task
    ew_pc,                  \* position of each writer context
    ew_batch,               \* writerLoop / task: batch, per context
    ew_immediate,           \* writerLoop / task: immediate_flush, per context
    ef_pc,                  \* position of the thread calling flush()
    ev_nextLine,            \* number of the next record handed to consume()
    \* ---- history (observations, never read by the program)
    ev_sent,                \* lines passed to sendEventWide, in order
    ev_lost,                \* lines evicted by consume()
    ev_failed,              \* lines whose sendEventWide failed
    ef_atCall,              \* lines accepted and not yet sent or evicted when
                            \* the flush() in progress was called
    ef_success              \* isSuccessfullyFlushed of the latest flush()

eventVars ==
    <<ev_pool, ev_queue, ev_memory, ev_dropped, ev_running, ev_immediate,
      m_tasks, ew_pc, ew_batch, ew_immediate, ef_pc, ev_nextLine, ev_sent,
      ev_lost, ev_failed, ef_atCall, ef_success>>

\* ---- one LogRecord on its way from LogRecord::toNDJsonLine() through the
\* first part of EventLogSink::consume() (lines 200-222).  Strings are
\* sequences of bytes (std::string) or of UTF-16 code units (std::wstring).
VARIABLES
    rec_pc,                 \* "none", "new", "line" or "prepared"
    rec_message,            \* LogRecord::message, UTF-8 bytes
    rec_snapshot,           \* LogRecord::snapshot_id: <<>> is std::nullopt,
                            \* <<id>> holds the string id
    rec_line,               \* the result of toNDJsonLine()
    prepared_batch          \* EventLogSink::consume: prepared_batch

recordVars == <<rec_pc, rec_message, rec_snapshot, rec_line, prepared_batch>>

\* ---- EventLogSink::processBatch and sendEventWide (lines 305-406), for
\* one batch at a time.  A line of the batch is [id, level]: its identity and
\* the level of the record it was serialized from (the sink does not keep
\* the level: it is history).
VARIABLES
    m_hEventLog,            \* EventLogSink::m_hEventLog is not nullptr
    pb_pc,                  \* position in processBatch / sendEventWide
    pb_batch,               \* processBatch: batch
    pb_i,                   \* processBatch: i, counted from 1
    pb_level,               \* processBatch: the value read as levels[i]
    pb_second,              \* the send in progress is that of line 386
    pb_failed,              \* processBatch: failed_sends
    se_attempt,             \* sendEventWide: attempt
    se_result,              \* the value the latest sendEventWide returned
    pb_nextId,              \* the id of the next line of a batch
    \* ---- history (observations, never read by the program)
    pb_added,               \* the total that line 399 has added to m_dropped
    se_calls,               \* ReportEventW calls of the send in progress
    se_reports,             \* per line, the ReportEventW calls made for it
    se_sends,               \* per line, the sendEventWide calls made for it
    se_fatal,               \* lines for which a call has ended with a
                            \* permission-denied or service-unavailable error
    se_failedFirst,         \* lines whose first sendEventWide returned false
    se_delivered,           \* <<id, event type>> of every successful call
    se_outOfBounds,         \* a read of levels[i] was outside log_levels
    se_registered           \* sends that called RegisterEventSourceW first

sendVars ==
    <<m_hEventLog, pb_pc, pb_batch, pb_i, pb_level, pb_second, pb_failed,
      se_attempt, se_result, pb_nextId, pb_added, se_calls, se_reports,
      se_sends, se_fatal, se_failedFirst, se_delivered, se_outOfBounds,
      se_registered>>

\* What an action of one part leaves alone.
sinksVars == <<fileVars, diskVars, eventVars, recordVars, sendVars>>
besideFile == <<loggerVars, diskVars, eventVars, recordVars, sendVars>>
besideDisk == <<loggerVars, fileVars, eventVars, recordVars, sendVars>>
besideEvent == <<loggerVars, fileVars, diskVars, recordVars, sendVars>>
besideRecord == <<loggerVars, fileVars, diskVars, eventVars, sendVars>>
besideSend == <<loggerVars, fileVars, diskVars, eventVars, recordVars>>

vars == <<loggerVars, fileVars, diskVars, eventVars, recordVars, sendVars>>

\* Groups used in UNCHANGED.
config == <<m_maxQueue, m_policy, m_profile>>
queueVars == <<m_queue, m_atomicQueueSize, m_droppedCount, nextRec, admitted, evicted>>
writerVars == <<w_pc, batch, sinks_copy, w_idx, w_final>>
sinkHist == <<called, threw, handed>>
ctlVars == <<c_sink, c_flush, c_idx, f_sinks, detached, atShutdown>>

\* ------------------------------------------------------------- helpers
Range(s) == {s[i] : i \in 1..Len(s)}

Min(a, b) == IF a < b THEN a ELSE b

\* s without its first n elements.
DropFirst(s, n) == SubSeq(s, n + 1, Len(s))

\* q is a suffix of s.
IsSuffix(q, s) ==
    /\ Len(q) <= Len(s)
    /\ SubSeq(s, Len(s) - Len(q) + 1, Len(s)) = q

\* std::ranges::find(m_sinks, sink) != end
Contains(s, x) == x \in Range(s)

\* vector::erase(it) for the position of x
Erase(s, x) == SelectSeq(s, LAMBDA y : y # x)

\* m_cv.notify_one(): the possible sets of threads still blocked afterwards.
NotifyOne(ws) == IF ws = {} THEN {{}} ELSE {ws \ {t} : t \in ws}

\* Where a thread continues after log() returns.
AfterLog(t) == IF t = Ctl THEN "sd_stop" ELSE "idle"

\* The FileLogger after construction (FileLogger.cpp lines 67-95): m_running
\* is set and the writer thread is started.
FileInit ==
    /\ file_queue = <<>>
    /\ file_currentQueueSize = 0
    /\ file_dropped = 0
    /\ file_running = TRUE
    /\ file_immediate = FALSE
    /\ local_buffer = <<>>
    /\ immediate_flush = FALSE
    /\ fw_pc = "top"
    /\ ff_pc = "idle"
    /\ nextLine = 1
    /\ file_written = <<>>
    /\ file_evicted = 0
    /\ ff_atCall = {}
    /\ ff_completed = FALSE
    /\ file_stop = FALSE
    /\ file_mutex = "free"
    /\ joinable = TRUE
    /\ fc_pc = "idle"
    /\ final_data = <<>>
    /\ fc_repeated = FALSE
    /\ cons_pc = "idle"
    /\ cons_lines = <<>>

\* The file side of the FileLogger after construction (FileLogger.cpp lines
\* 67-95) in an empty log directory: openLogFile has created the active file.
DiskInit ==
    /\ m_maxFileBytes \in 1..MaxFileBytesCap
    /\ m_rotateCount \in 0..MaxRotateCount
    /\ m_fileHandle = TRUE
    /\ m_currentFileBytes = 0
    /\ remaining = 0
    /\ wb_pc = "idle"
    /\ activeSize = 0
    /\ activeMtime = 0
    /\ archives = {}
    /\ now = 0
    /\ attempts = 0
    /\ lastError = "none"
    /\ rotations = 0
    /\ deleted = {}
    /\ handedBytes = 0
    /\ totalWritten = 0
    /\ faults = FALSE
    /\ wb_result = TRUE

\* The writer contexts of the EventLogSink.
Contexts == 1..NumPoolThreads

\* The EventLogSink after construction (EventLogSink.h lines 154-178): with
\* no thread manager its own thread is started, with one the recurring task
\* is scheduled.
EventInit ==
    /\ ev_pool \in BOOLEAN
    /\ ev_queue = <<>>
    /\ ev_memory = 0
    /\ ev_dropped = 0
    /\ ev_running = TRUE
    /\ ev_immediate = FALSE
    /\ m_tasks = 0
    /\ ew_pc = [i \in Contexts |-> IF ev_pool \/ i > 1 THEN "idle" ELSE "top"]
    /\ ew_batch = [i \in Contexts |-> <<>>]
    /\ ew_immediate = [i \in Contexts |-> FALSE]
    /\ ef_pc = "idle"
    /\ ev_nextLine = 1
    /\ ev_sent = <<>>
    /\ ev_lost = {}
    /\ ev_failed = {}
    /\ ef_atCall = {}
    /\ ef_success = FALSE

\* No record is being serialized.
NoRecord ==
    /\ rec_pc = "none"
    /\ rec_message = <<>>
    /\ rec_snapshot = <<>>
    /\ rec_line = <<>>
    /\ prepared_batch = <<>>

\* No batch is being processed; registration of the event source succeeded
\* or failed (constructor, lines 163-167).
SendInit ==
    /\ m_hEventLog \in BOOLEAN
    /\ pb_pc = "idle"
    /\ pb_batch = <<>>
    /\ pb_i = 1
    /\ pb_level = Debug
    /\ pb_second = FALSE
    /\ pb_failed = 0
    /\ se_attempt = 0
    /\ se_result = FALSE
    /\ pb_nextId = 1
    /\ pb_added = 0
    /\ se_calls = 0
    /\ se_reports = [k \in 1..MaxSendLines |-> 0]
    /\ se_sends = [k \in 1..MaxSendLines |-> 0]
    /\ se_fatal = {}
    /\ se_failedFirst = {}
    /\ se_delivered = <<>>
    /\ se_outOfBounds = FALSE
    /\ se_registered = 0

\* The sinks beside a Logger whose own behaviour is followed.
SinksInit ==
    /\ FileInit
    /\ DiskInit
    /\ m_maxFileBytes = MaxFileBytesCap
    /\ m_rotateCount = MaxRotateCount
    /\ EventInit
    /\ ~ev_pool
    /\ NoRecord
    /\ SendInit
    /\ m_hEventLog

\* The Logger after construction (lines 181-186), with m_sinks given.
LoggerInitWith(sinks) ==
    /\ m_maxQueue \in 1..MaxQueueCap
    /\ m_policy \in OverflowPolicy
    /\ m_profile \in LoggingProfile
    /\ lvl = [t \in Producers |-> NoLevel]
    /\ loops = 0
    /\ m_queue = <<>>
    /\ m_atomicQueueSize = 0
    /\ m_droppedCount = 0
    /\ m_sinks = sinks
    /\ m_running = FALSE
    /\ stop_requested = FALSE
    /\ active_batches = 0
    /\ m_mutex = Free
    /\ waiters = {}
    /\ pc = [t \in Loggers |-> "idle"]
    /\ rec = [t \in Loggers |-> 0]
    /\ w_pc = "notStarted"
    /\ batch = <<>>
    /\ sinks_copy = <<>>
    /\ w_idx = 0
    /\ w_final = FALSE
    /\ c_sink = 0
    /\ c_flush = FALSE
    /\ c_idx = 0
    /\ f_sinks = <<>>
    /\ detached = FALSE
    /\ nextRec = 1
    /\ admitted = <<>>
    /\ evicted = {}
    /\ called = <<>>
    /\ threw = {}
    /\ handed = {}
    /\ atShutdown = {}

InitWith(sinks) == LoggerInitWith(sinks) /\ SinksInit

\* A Logger as its constructor leaves it: no sink registered.
Init == InitWith(<<>>)

\* ------------------------------------------------------------- log()
\* handleOverflowPolicy, case Block (lines 370-374): the thread enters
\* m_cv.wait with the queue at capacity, which releases the mutex; the
\* append happens in LogResume.
OverflowBlock(t, r) ==
    /\ waiters' = waiters \cup {t}
    /\ pc' = [pc EXCEPT ![t] = "blocked"]
    /\ rec' = [rec EXCEPT ![t] = r]
    /\ UNCHANGED <<m_queue, m_droppedCount, admitted, evicted>>

\* (variant: the incoming record is evicted like under DropOldest)
OverflowDropNewest_Evicts(t, r) ==
    /\ m_queue' = Append(DropFirst(m_queue, 1), r)
    /\ m_droppedCount' = m_droppedCount + 1
    /\ admitted' = Append(admitted, r)
    /\ pc' = [pc EXCEPT ![t] = AfterLog(t)]
    /\ UNCHANGED <<evicted, waiters, rec>>

\* handleOverflowPolicy, case DropNewest (lines 376-378): count the
\* discard; nothing else.
OverflowDropNewest(t, r) ==
    /\ m_droppedCount' = m_droppedCount + 1
    /\ pc' = [pc EXCEPT ![t] = AfterLog(t)]
    /\ UNCHANGED <<m_queue, admitted, evicted, waiters, rec>>

\* (variant: the loop pops the newest record, pop_back)
OverflowDropOldest_PopsBack(t, r) ==
    LET n == Len(m_queue) - m_maxQueue + 1 IN
    /\ m_queue' = Append(SubSeq(m_queue, 1, Len(m_queue) - n), r)
    /\ m_droppedCount' = m_droppedCount + n
    /\ evicted' = evicted \cup
                  {m_queue[i] : i \in (Len(m_queue) - n + 1)..Len(m_queue)}
    /\ admitted' = Append(admitted, r)
    /\ \E nw \in NotifyOne(waiters) : waiters' = nw
    /\ pc' = [pc EXCEPT ![t] = AfterLog(t)]
    /\ UNCHANGED rec

\* (variant: the record is appended without the eviction loop)
OverflowDropOldest_NoEvict(t, r) ==
    /\ m_queue' = Append(m_queue, r)
    /\ admitted' = Append(admitted, r)
    /\ \E nw \in NotifyOne(waiters) : waiters' = nw
    /\ pc' = [pc EXCEPT ![t] = AfterLog(t)]
    /\ UNCHANGED <<m_droppedCount, evicted, rec>>

\* handleOverflowPolicy, case DropOldest (lines 380-388): pop_front and
\* count while the queue is at capacity (n pops bring the size to
\* m_maxQueue - 1), then append and notify_one.
OverflowDropOldest(t, r) ==
    LET n == Len(m_queue) - m_maxQueue + 1 IN
    /\ m_queue' = Append(DropFirst(m_queue, n), r)
    /\ m_droppedCount' = m_droppedCount + n
    /\ evicted' = evicted \cup {m_queue[i] : i \in 1..n}
    /\ admitted' = Append(admitted, r)
    /\ \E nw \in NotifyOne(waiters) : waiters' = nw
    /\ pc' = [pc EXCEPT ![t] = AfterLog(t)]
    /\ UNCHANGED rec

\* Logger::handleOverflowPolicy, entered with the mutex held and the queue
\* at capacity.  None of the three paths stores m_atomicQueueSize.
handleOverflowPolicy(t, r) ==
    CASE m_policy = "Block" -> OverflowBlock(t, r)
      [] m_policy = "DropNewest" -> OverflowDropNewest(t, r)
      [] m_policy = "DropOldest" -> OverflowDropOldest(t, r)

\* Logger::log from the lock on (lines 337-350): thread t submits record r.
\* The notify_one that follows the unlock is taken together with the
\* append; spurious wake-ups already let any waiter wake at any time.
LogRecord(t, r) ==
    /\ m_mutex = Free
    /\ nextRec' = r + 1
    /\ IF Len(m_queue) >= m_maxQueue
       THEN /\ handleOverflowPolicy(t, r)
            /\ UNCHANGED m_atomicQueueSize
       ELSE /\ m_queue' = Append(m_queue, r)
            /\ m_atomicQueueSize' = Len(m_queue')
            /\ admitted' = Append(admitted, r)
            /\ \E nw \in NotifyOne(waiters) : waiters' = nw
            /\ pc' = [pc EXCEPT ![t] = AfterLog(t)]
            /\ UNCHANGED <<m_droppedCount, evicted, rec>>

\* Logger::shouldSkipByProfile (lines 353-364).
minLevel ==
    CASE m_profile = "Weak" -> Error
      [] m_profile = "Medium" -> Info
      [] m_profile = "Strong" -> Trace

\* (variant: the comparison is <=, the floor level itself is rejected)
shouldSkipByProfile_Inclusive(level) == level <= minLevel

shouldSkipByProfile(level) == level < minLevel

\* A producer thread calls log() with a level that passes the filter of
\* lines 307-310, taken as one step up to the return.  (A call that the
\* filter rejects returns without having touched the Logger.)
Log(t) ==
    /\ pc[t] = "idle"
    /\ nextRec <= MaxRecords
    /\ {level \in LogLevel : ~shouldSkipByProfile(level)} # {}
    /\ LogRecord(t, nextRec)
    /\ UNCHANGED <<sinksVars, config, lvl, loops, m_sinks, m_running, stop_requested, active_batches,
                   m_mutex, writerVars, sinkHist, ctlVars>>

\* Entry of log() (line 296) with its level argument: log() followed in two
\* steps, so that a call the filter rejects is visible.
LogCall(t, level) ==
    /\ pc[t] = "idle"
    /\ nextRec <= MaxRecords
    /\ pc' = [pc EXCEPT ![t] = "log_called"]
    /\ lvl' = [lvl EXCEPT ![t] = level]
    /\ UNCHANGED <<sinksVars, config, loops, queueVars, m_sinks, m_running, stop_requested,
                   active_batches, m_mutex, waiters, rec, writerVars, sinkHist,
                   ctlVars>>

\* The body of log() after its entry (lines 307-350): return when the
\* filter rejects the level, else build the record and submit it.
LogBody(t) ==
    /\ pc[t] = "log_called"
    /\ lvl' = [lvl EXCEPT ![t] = NoLevel]
    /\ IF shouldSkipByProfile(lvl[t])
       THEN /\ pc' = [pc EXCEPT ![t] = "idle"]
            /\ UNCHANGED <<queueVars, waiters, rec>>
       ELSE LogRecord(t, nextRec)
    /\ UNCHANGED <<sinksVars, config, loops, m_sinks, m_running, stop_requested,
                   active_batches, m_mutex, writerVars, sinkHist, ctlVars>>

\* (variant: the wait returns without its predicate being evaluated)
WaitPredicate_Ignored == TRUE

\* The predicate of m_cv.wait at line 371.
WaitPredicate == Len(m_queue) < m_maxQueue

\* Block policy, m_cv.wait(lk, pred) at line 371 after a wake-up: the
\* thread re-acquires the mutex and re-evaluates the predicate; when it
\* holds the record is appended and notify_one is called (lines 372-373),
\* otherwise the thread blocks again.
LogResume(t) ==
    /\ pc[t] = "blocked"
    /\ t \notin waiters
    /\ m_mutex = Free
    /\ IF WaitPredicate
       THEN /\ m_queue' = Append(m_queue, rec[t])
            /\ admitted' = Append(admitted, rec[t])
            /\ \E nw \in NotifyOne(waiters) : waiters' = nw
            /\ pc' = [pc EXCEPT ![t] = AfterLog(t)]
            /\ rec' = [rec EXCEPT ![t] = 0]
       ELSE /\ waiters' = waiters \cup {t}
            /\ UNCHANGED <<m_queue, admitted, pc, rec>>
    /\ UNCHANGED <<sinksVars, config, lvl, loops, m_atomicQueueSize, m_droppedCount, nextRec, evicted,
                   m_sinks, m_running, stop_requested, active_batches, m_mutex,
                   writerVars, sinkHist, ctlVars>>

\* std::condition_variable permits spurious wake-ups of a blocked thread.
\* (The dispatch thread needs none: W_Wake is enabled without notification.)
SpuriousWakeup(t) ==
    /\ t \in waiters
    /\ waiters' = waiters \ {t}
    /\ UNCHANGED <<sinksVars, config, lvl, loops, queueVars, m_sinks, m_running, stop_requested,
                   active_batches, m_mutex, pc, rec, writerVars, sinkHist, ctlVars>>

\* ------------------------------------------------------------- writerLoop
\* Top of `while (!stoken.stop_requested())` (line 396); on a stop request
\* control passes to processRemainingRecords (line 441).  batch and
\* sinks_copy are locals of the loop body: an iteration starts with fresh
\* ones.
W_CheckStop ==
    /\ w_pc = "top"
    /\ w_pc' = IF stop_requested THEN "remaining" ELSE "lock"
    /\ batch' = <<>>
    /\ sinks_copy' = <<>>
    /\ w_idx' = 0
    /\ called' = <<>>
    /\ threw' = {}
    /\ UNCHANGED <<sinksVars, config, lvl, loops, queueVars, m_sinks, m_running, stop_requested,
                   active_batches, m_mutex, waiters, pc, rec, w_final, handed,
                   ctlVars>>

\* std::unique_lock lk(m_mutex) (line 403).
W_Lock ==
    /\ w_pc = "lock"
    /\ m_mutex = Free
    /\ m_mutex' = HeldBy(Writer)
    /\ w_pc' = "locked"
    /\ UNCHANGED <<sinksVars, config, lvl, loops, queueVars, m_sinks, m_running, stop_requested,
                   active_batches, waiters, pc, rec, batch, sinks_copy, w_idx,
                   w_final, sinkHist, ctlVars>>

\* (variant: the lock's scope reaches to the end of the loop body)
ScopeEnd_AfterDispatch == HeldBy(Writer)

\* The unique_lock of line 403 lives in the block of lines 401-421: the
\* mutex is free once the block is left.
ScopeEnd == Free

\* (variant: the records are taken from the back of the queue)
PopBatch_FromBack ==
    LET n == Min(kMaxBatch, Len(m_queue)) IN
    /\ batch' = SubSeq(m_queue, Len(m_queue) - n + 1, Len(m_queue))
    /\ m_queue' = SubSeq(m_queue, 1, Len(m_queue) - n)
    /\ m_atomicQueueSize' = Len(m_queue')
    /\ sinks_copy' = m_sinks
    /\ m_mutex' = ScopeEnd
    /\ w_pc' = IF batch' # <<>> /\ sinks_copy' # <<>> THEN "inc" ELSE "top"
    /\ w_idx' = IF batch' # <<>> /\ sinks_copy' # <<>> THEN 1 ELSE 0

\* Lines 413-421 with the mutex held: move up to kMaxBatch records from the
\* front of the queue into batch, store the queue size, copy the sink list;
\* the mutex is released at the end of the block.  The thread goes on to
\* the dispatch (line 423) when batch and sinks_copy are both non-empty, and
\* back to the top of the loop otherwise.
PopBatch ==
    LET n == Min(kMaxBatch, Len(m_queue)) IN
    /\ batch' = SubSeq(m_queue, 1, n)
    /\ m_queue' = DropFirst(m_queue, n)
    /\ m_atomicQueueSize' = Len(m_queue')
    /\ sinks_copy' = m_sinks
    /\ m_mutex' = ScopeEnd
    /\ w_pc' = IF batch' # <<>> /\ sinks_copy' # <<>> THEN "inc" ELSE "top"
    /\ w_idx' = IF batch' # <<>> /\ sinks_copy' # <<>> THEN 1 ELSE 0

\* Lines 405-421 after the lock: with an empty queue and no stop request
\* the thread enters m_cv.wait_for (releasing the mutex); otherwise it pops.
W_WaitOrPop ==
    /\ w_pc = "locked"
    /\ m_mutex = HeldBy(Writer)
    /\ IF m_queue = <<>> /\ ~stop_requested
       THEN /\ waiters' = waiters \cup {Writer}
            /\ m_mutex' = Free
            /\ w_pc' = "waiting"
            /\ UNCHANGED <<m_queue, m_atomicQueueSize, batch, sinks_copy, w_idx>>
       ELSE /\ PopBatch
            /\ UNCHANGED waiters
    /\ UNCHANGED <<sinksVars, config, lvl, loops, m_droppedCount, nextRec, admitted, evicted, m_sinks,
                   m_running, stop_requested, active_batches, pc, rec, w_final,
                   sinkHist, ctlVars>>

\* m_cv.wait_for returns (notification, spurious wake-up, or the 200 ms
\* kFlushInterval elapsed, which needs no notification): the mutex is
\* re-acquired and lines 413-421 run whatever the predicate says.
W_Wake ==
    /\ w_pc = "waiting"
    /\ m_mutex = Free
    /\ waiters' = waiters \ {Writer}
    /\ PopBatch
    /\ UNCHANGED <<sinksVars, config, lvl, loops, m_droppedCount, nextRec, admitted, evicted, m_sinks,
                   m_running, stop_requested, active_batches, pc, rec, w_final,
                   sinkHist, ctlVars>>

\* active_batches.fetch_add(1) (line 426), outside the mutex.
W_BeginDispatch ==
    /\ w_pc = "inc"
    /\ active_batches' = active_batches + 1
    /\ w_pc' = "consume"
    /\ UNCHANGED <<sinksVars, config, lvl, loops, queueVars, m_sinks, m_running, stop_requested, m_mutex,
                   waiters, pc, rec, batch, sinks_copy, w_idx, w_final, sinkHist,
                   ctlVars>>

\* Where the dispatch thread continues after the call on the last sink:
\* line 430 in writerLoop, line 487 in processRemainingRecords.
AfterSinks == IF w_final THEN "remaining" ELSE "dec"

\* (variant: no handler, the exception leaves the loop over the sinks)
NextSink_Propagates(throws) ==
    IF throws \/ w_idx = Len(sinks_copy) THEN AfterSinks ELSE "consume"

\* The loop of processBatchWithSinks (lines 447-460) after a call: the
\* handlers of lines 452-459 swallow an exception, so the loop goes on with
\* the next sink whether or not the call threw.
NextSink(throws) ==
    IF w_idx = Len(sinks_copy) THEN AfterSinks ELSE "consume"

\* One iteration of the loop of processBatchWithSinks: sink->consume(batch)
\* on sinks[w_idx]; throws tells whether the call raised.
ConsumeOne(throws) ==
    LET s == sinks_copy[w_idx] IN
    /\ called' = Append(called, s)
    /\ threw' = IF throws THEN threw \cup {s} ELSE threw
    /\ w_pc' = NextSink(throws)
    /\ w_idx' = w_idx + 1
    /\ handed' = IF w_idx = Len(sinks_copy) THEN handed \cup Range(batch)
                 ELSE handed

W_Consume ==
    /\ w_pc = "consume"
    /\ \E throws \in BOOLEAN :
         /\ throws => sinks_copy[w_idx] \in Faulty
         /\ ConsumeOne(throws)
    /\ UNCHANGED <<sinksVars, config, lvl, loops, queueVars, m_sinks, m_running, stop_requested,
                   active_batches, m_mutex, waiters, pc, rec, batch, sinks_copy,
                   w_final, ctlVars>>

\* active_batches.fetch_sub(1); m_cv.notify_all() (lines 430-431), outside
\* the mutex; then back to the top of the loop (batch is not empty).
W_EndDispatch ==
    /\ w_pc = "dec"
    /\ active_batches' = active_batches - 1
    /\ waiters' = {}
    /\ w_pc' = "top"
    /\ UNCHANGED <<sinksVars, config, lvl, loops, queueVars, m_sinks, m_running, stop_requested, m_mutex,
                   pc, rec, batch, sinks_copy, w_idx, w_final, sinkHist, ctlVars>>

\* Logger::processRemainingRecords (lines 463-490), one pass of its
\* `while (!stoken.stop_requested())`: when no stop is requested, lock, leave
\* the loop on an empty queue, else pop up to kFinalBatchSize records, copy
\* the sinks and hand the batch to them (no active_batches accounting);
\* when a stop is requested the loop ends and the thread exits.
W_Remaining ==
    /\ w_pc = "remaining"
    /\ IF ~stop_requested
       THEN /\ m_mutex = Free
            /\ IF m_queue = <<>>
               THEN /\ w_pc' = "exited"
                    /\ w_final' = FALSE
                    /\ UNCHANGED <<m_queue, batch, sinks_copy, w_idx, called, threw>>
               ELSE LET n == Min(kFinalBatchSize, Len(m_queue)) IN
                    /\ batch' = SubSeq(m_queue, 1, n)
                    /\ m_queue' = DropFirst(m_queue, n)
                    /\ sinks_copy' = m_sinks
                    /\ called' = <<>>
                    /\ threw' = {}
                    /\ w_idx' = 1
                    /\ w_final' = (sinks_copy' # <<>>)
                    /\ w_pc' = IF sinks_copy' # <<>> THEN "consume" ELSE "remaining"
       ELSE /\ w_pc' = "exited"
            /\ w_final' = FALSE
            /\ UNCHANGED <<m_queue, batch, sinks_copy, w_idx, called, threw>>
    /\ UNCHANGED <<sinksVars, config, lvl, loops, m_atomicQueueSize, m_droppedCount, nextRec, admitted,
                   evicted, m_sinks, m_running, stop_requested, active_batches,
                   m_mutex, waiters, pc, rec, handed, ctlVars>>

\* ------------------------------------------------------------- control thread
\* Logger::start (lines 198-210): compare_exchange on m_running, then a new
\* jthread.  The model follows one dispatch thread through its life: a
\* start() after a completed shutdown() is not taken.
Start ==
    /\ pc[Ctl] = "idle"
    /\ m_running \/ w_pc = "notStarted"
    /\ IF m_running
       THEN UNCHANGED <<m_running, w_pc, loops>>
       ELSE /\ m_running' = TRUE
            /\ w_pc' = "top"
            /\ loops' = loops + 1
    /\ UNCHANGED <<sinksVars, config, lvl, queueVars, m_sinks, stop_requested, active_batches,
                   m_mutex, waiters, pc, rec, batch, sinks_copy, w_idx, w_final,
                   sinkHist, ctlVars>>

\* (variant: m_running is set without being tested)
StartCall_Unconditional(t) ==
    /\ pc[t] = "idle"
    /\ m_running' = TRUE
    /\ pc' = [pc EXCEPT ![t] = "st_spawn"]
    /\ UNCHANGED <<sinksVars, config, lvl, loops, queueVars, m_sinks, stop_requested,
                   active_batches, m_mutex, waiters, rec, writerVars, sinkHist,
                   ctlVars>>

\* Logger::start called by any thread, followed step by step so that
\* calls can overlap.  Lines 200-204: compare_exchange_strong(false, true)
\* on m_running; the call that finds it true is about to return.
StartCall(t) ==
    /\ pc[t] = "idle"
    /\ m_running' = TRUE
    /\ pc' = [pc EXCEPT ![t] = IF m_running THEN "st_return" ELSE "st_spawn"]
    /\ UNCHANGED <<sinksVars, config, lvl, loops, queueVars, m_sinks, stop_requested,
                   active_batches, m_mutex, waiters, rec, writerVars, sinkHist,
                   ctlVars>>

\* Logger::start, line 203: return.
StartReturn(t) ==
    /\ pc[t] = "st_return"
    /\ pc' = [pc EXCEPT ![t] = "idle"]
    /\ UNCHANGED <<sinksVars, config, lvl, loops, queueVars, m_sinks, m_running,
                   stop_requested, active_batches, m_mutex, waiters, rec,
                   writerVars, sinkHist, ctlVars>>

\* Logger::start, lines 206-209: m_worker = std::jthread(writerLoop).
StartSpawn(t) ==
    /\ pc[t] = "st_spawn"
    /\ loops' = loops + 1
    /\ w_pc' = "top"
    /\ pc' = [pc EXCEPT ![t] = "idle"]
    /\ UNCHANGED <<sinksVars, config, lvl, queueVars, m_sinks, m_running, stop_requested,
                   active_batches, m_mutex, waiters, rec, batch, sinks_copy,
                   w_idx, w_final, sinkHist, ctlVars>>

\* Logger::addSink (lines 251-265) for a non-null sink.
AddSink(s) ==
    /\ pc[Ctl] = "idle"
    /\ m_mutex = Free
    /\ IF ~Contains(m_sinks, s)
       THEN /\ m_sinks' = Append(m_sinks, s)
            /\ \E nw \in NotifyOne(waiters) : waiters' = nw
       ELSE UNCHANGED <<m_sinks, waiters>>
    /\ UNCHANGED <<sinksVars, config, lvl, loops, queueVars, m_running, stop_requested, active_batches,
                   m_mutex, pc, rec, writerVars, sinkHist, ctlVars>>

\* The body of m_cv.wait(lk, pred) in removeSink once the mutex is held
\* (lines 276-280): when active_batches is 0 the sink is erased and
\* removeSink returns; otherwise the thread is about to block, still
\* holding the mutex.
RemoveWhenIdle(s) ==
    IF active_batches = 0
    THEN /\ m_sinks' = Erase(m_sinks, s)
         /\ m_mutex' = Free
         /\ c_sink' = 0
         /\ pc' = [pc EXCEPT ![Ctl] = "idle"]
    ELSE /\ m_mutex' = HeldBy(Ctl)
         /\ c_sink' = s
         /\ pc' = [pc EXCEPT ![Ctl] = "rs_prewait"]
         /\ UNCHANGED m_sinks

\* Logger::removeSink (lines 268-282) for a non-null sink: lock, find; a
\* sink that is not registered makes the call return at once.
RemoveSink(s) ==
    /\ pc[Ctl] = "idle"
    /\ m_mutex = Free
    /\ IF Contains(m_sinks, s)
       THEN RemoveWhenIdle(s)
       ELSE UNCHANGED <<m_sinks, m_mutex, pc, c_sink>>
    /\ UNCHANGED <<sinksVars, config, lvl, loops, queueVars, m_running, stop_requested, active_batches,
                   waiters, rec, writerVars, sinkHist, c_flush, c_idx, f_sinks,
                   detached, atShutdown>>

\* removeSink blocks in m_cv.wait: the mutex is released and the thread
\* joins the waiters.  active_batches is changed outside the mutex, so the
\* dispatch thread may have decremented and notified since the predicate
\* was evaluated.
RemoveSinkBlock ==
    /\ pc[Ctl] = "rs_prewait"
    /\ m_mutex' = Free
    /\ waiters' = waiters \cup {Ctl}
    /\ pc' = [pc EXCEPT ![Ctl] = "rs_wait"]
    /\ UNCHANGED <<sinksVars, config, lvl, loops, queueVars, m_sinks, m_running, stop_requested,
                   active_batches, rec, writerVars, sinkHist, ctlVars>>

\* removeSink woken: re-acquire the mutex and evaluate the predicate again.
RemoveSinkResume ==
    /\ pc[Ctl] = "rs_wait"
    /\ Ctl \notin waiters
    /\ m_mutex = Free
    /\ RemoveWhenIdle(c_sink)
    /\ UNCHANGED <<sinksVars, config, lvl, loops, queueVars, m_running, stop_requested, active_batches,
                   waiters, rec, writerVars, sinkHist, c_flush, c_idx, f_sinks,
                   detached, atShutdown>>

\* Logger::shutdown (lines 214-223): compare_exchange on m_running; a
\* Logger that is not running makes the call return.  With flush the call
\* goes on to log "Logger shutdown", without it to the stop request.
Shutdown(flush) ==
    /\ pc[Ctl] = "idle"
    /\ (flush /\ ~shouldSkipByProfile(Info)) => nextRec <= MaxRecords
    /\ IF m_running
       THEN /\ m_running' = FALSE
            /\ c_flush' = flush
            /\ atShutdown' = IF flush THEN Range(admitted) ELSE atShutdown
            /\ pc' = [pc EXCEPT ![Ctl] = IF flush THEN "sd_log" ELSE "sd_stop"]
       ELSE UNCHANGED <<m_running, c_flush, atShutdown, pc>>
    /\ UNCHANGED <<sinksVars, config, lvl, loops, queueVars, m_sinks, stop_requested, active_batches,
                   m_mutex, waiters, rec, writerVars, sinkHist, c_sink, c_idx,
                   f_sinks, detached>>

\* shutdown, line 222: log(LogLevel::Info, "Logger shutdown", "shutdown").
ShutdownLog ==
    /\ pc[Ctl] = "sd_log"
    /\ IF shouldSkipByProfile(Info)
       THEN /\ pc' = [pc EXCEPT ![Ctl] = AfterLog(Ctl)]
            /\ UNCHANGED <<queueVars, waiters, rec>>
       ELSE LogRecord(Ctl, nextRec)
    /\ UNCHANGED <<sinksVars, config, lvl, loops, m_sinks, m_running, stop_requested, active_batches,
                   m_mutex, writerVars, sinkHist, ctlVars>>

\* shutdown, lines 225-228: m_worker.request_stop(); m_cv.notify_all().
ShutdownStop ==
    /\ pc[Ctl] = "sd_stop"
    /\ stop_requested' = TRUE
    /\ waiters' = {}
    /\ pc' = [pc EXCEPT ![Ctl] = "sd_join"]
    /\ UNCHANGED <<sinksVars, config, lvl, loops, queueVars, m_sinks, m_running, active_batches, m_mutex,
                   rec, writerVars, sinkHist, ctlVars>>

\* Where shutdown continues once the block of lines 230-242 is left: at
\* flushAllSinks with flush (lines 245-248), else it returns.
AfterJoin == IF c_flush THEN "sd_flush" ELSE "idle"

\* shutdown, lines 232-241: std::async runs m_worker.join() on another
\* thread and the caller waits 5 s for its future.  The future is ready
\* (timedOut = FALSE) once the dispatch thread has exited.  Otherwise the
\* wait times out and the caller calls m_worker.detach() while the task may
\* be inside m_worker.join(): two unsynchronised accesses to m_worker.  The
\* outcomes are that the task was already waiting inside join() (it stays
\* there until the dispatch thread ends), or that its join() came after the
\* detach, found m_worker not joinable and threw, which makes the future
\* ready.
ShutdownJoin(timedOut) ==
    /\ pc[Ctl] = "sd_join"
    /\ IF timedOut
       THEN /\ w_pc # "exited"
            /\ detached' = TRUE
            /\ \E l \in {"sd_future_joining", "sd_future_ready"} :
                 pc' = [pc EXCEPT ![Ctl] = l]
       ELSE /\ w_pc = "exited"
            /\ detached' = FALSE
            /\ pc' = [pc EXCEPT ![Ctl] = AfterJoin]
    /\ UNCHANGED <<sinksVars, config, lvl, loops, queueVars, m_sinks, m_running, stop_requested,
                   active_batches, m_mutex, waiters, rec, writerVars, sinkHist,
                   c_sink, c_flush, c_idx, f_sinks, atShutdown>>

\* shutdown, line 242: the future of std::async goes out of scope; its
\* destructor blocks until the task has finished, that is until
\* m_worker.join() has returned or thrown.
ShutdownFuture ==
    /\ pc[Ctl] \in {"sd_future_joining", "sd_future_ready"}
    /\ pc[Ctl] = "sd_future_joining" => w_pc = "exited"
    /\ pc' = [pc EXCEPT ![Ctl] = AfterJoin]
    /\ UNCHANGED <<sinksVars, config, lvl, loops, queueVars, m_sinks, m_running, stop_requested,
                   active_batches, m_mutex, waiters, rec, writerVars, sinkHist,
                   ctlVars>>

\* The position inside the loop of flushAllSinks, for the position at
\* its entry: flushAllSinks is called by shutdown (line 247) and by flush
\* (line 501).
Flushing(entry) == IF entry = "sd_flush" THEN "sd_flushing" ELSE "fl_flushing"

\* Logger::flushAllSinks, lines 506-510: copy m_sinks under the mutex.
FlushCopy ==
    /\ pc[Ctl] \in {"sd_flush", "fl_flush"}
    /\ m_mutex = Free
    /\ f_sinks' = m_sinks
    /\ c_idx' = IF m_sinks = <<>> THEN 0 ELSE 1
    /\ c_flush' = (c_flush /\ m_sinks # <<>>)
    /\ atShutdown' = IF m_sinks = <<>> THEN {} ELSE atShutdown
    /\ pc' = [pc EXCEPT ![Ctl] = IF m_sinks = <<>> THEN "idle"
                                 ELSE Flushing(pc[Ctl])]
    /\ UNCHANGED <<sinksVars, config, lvl, loops, queueVars, m_sinks, m_running, stop_requested,
                   active_batches, m_mutex, waiters, rec, writerVars, sinkHist,
                   c_sink, detached>>

\* Logger::flushAllSinks, lines 512-522: sink->flush() on the next sink of
\* the copy, exceptions caught; after the last sink the caller of
\* flushAllSinks (shutdown or flush) returns.
FlushSink ==
    /\ pc[Ctl] \in {"sd_flushing", "fl_flushing"}
    /\ IF c_idx = Len(f_sinks)
       THEN /\ c_idx' = 0
            /\ f_sinks' = <<>>
            /\ c_flush' = FALSE
            /\ atShutdown' = {}
            /\ pc' = [pc EXCEPT ![Ctl] = "idle"]
       ELSE /\ c_idx' = c_idx + 1
            /\ UNCHANGED <<f_sinks, c_flush, pc, atShutdown>>
    /\ UNCHANGED <<sinksVars, config, lvl, loops, queueVars, m_sinks, m_running, stop_requested,
                   active_batches, m_mutex, waiters, rec, writerVars, sinkHist,
                   c_sink, detached>>

\* The body of m_cv.wait(lk, pred) in flush once the mutex is held (lines
\* 495-498): with an empty queue and active_batches at 0 the wait is over
\* and flush goes on to flushAllSinks; otherwise the thread is about to
\* block, still holding the mutex.
FlushWhenDrained ==
    IF m_queue = <<>> /\ active_batches = 0
    THEN /\ m_mutex' = Free
         /\ pc' = [pc EXCEPT ![Ctl] = "fl_flush"]
    ELSE /\ m_mutex' = HeldBy(Ctl)
         /\ pc' = [pc EXCEPT ![Ctl] = "fl_prewait"]

\* Logger::flush (lines 492-498): lock and enter m_cv.wait, which has no
\* timeout.
Flush ==
    /\ pc[Ctl] = "idle"
    /\ m_mutex = Free
    /\ FlushWhenDrained
    /\ atShutdown' = Range(admitted)
    /\ UNCHANGED <<sinksVars, config, lvl, loops, queueVars, m_sinks, m_running, stop_requested,
                   active_batches, waiters, rec, writerVars, sinkHist, c_sink,
                   c_flush, c_idx, f_sinks, detached>>

\* flush blocks in m_cv.wait: the mutex is released and the thread joins
\* the waiters.  active_batches is changed outside the mutex, so the
\* dispatch thread may have decremented and notified since the predicate
\* was evaluated.
FlushBlock ==
    /\ pc[Ctl] = "fl_prewait"
    /\ m_mutex' = Free
    /\ waiters' = waiters \cup {Ctl}
    /\ pc' = [pc EXCEPT ![Ctl] = "fl_wait"]
    /\ UNCHANGED <<sinksVars, config, lvl, loops, queueVars, m_sinks, m_running, stop_requested,
                   active_batches, rec, writerVars, sinkHist, ctlVars>>

\* flush woken: re-acquire the mutex and evaluate the predicate again.
FlushResume ==
    /\ pc[Ctl] = "fl_wait"
    /\ Ctl \notin waiters
    /\ m_mutex = Free
    /\ FlushWhenDrained
    /\ UNCHANGED <<sinksVars, config, lvl, loops, queueVars, m_sinks, m_running, stop_requested,
                   active_batches, waiters, rec, writerVars, sinkHist, ctlVars>>

\* ------------------------------------------------------------- specification
ProducerNext == \E t \in Producers : Log(t) \/ LogResume(t)

WriterNext ==
    \/ W_CheckStop \/ W_Lock \/ W_WaitOrPop \/ W_Wake
    \/ W_BeginDispatch \/ W_Consume \/ W_EndDispatch \/ W_Remaining

\* The steps by which the control thread goes on with a call it is inside.
ControlContinue ==
    \/ RemoveSinkBlock \/ RemoveSinkResume
    \/ ShutdownLog \/ LogResume(Ctl) \/ ShutdownStop
    \/ \E timedOut \in BOOLEAN : ShutdownJoin(timedOut)
    \/ ShutdownFuture
    \/ FlushBlock \/ FlushResume
    \/ FlushCopy \/ FlushSink

\* The calls the control thread makes.
ControlCall ==
    \/ Start
    \/ \E s \in Sinks : AddSink(s) \/ RemoveSink(s)
    \/ \E flush \in BOOLEAN : Shutdown(flush)
    \/ Flush

Next ==
    \/ ProducerNext
    \/ WriterNext
    \/ ControlCall
    \/ ControlContinue
    \/ \E t \in Loggers : SpuriousWakeup(t)

Spec == Init /\ [][Next]_vars

\* The lists m_sinks can hold: addSink appends a sink that is not yet in it.
SinkLists ==
    {l \in UNION {[1..n -> Sinks] : n \in 0..NumSinks} :
        \A i, j \in 1..Len(l) : i # j => l[i] # l[j]}

\* A Logger of profile Strong, which lets every level through, whose sinks
\* were all registered before start(): addSink on a Logger that is not
\* running only appends to m_sinks.
FixedSinksInit == \E l \in SinkLists : InitWith(l) /\ m_profile = "Strong"

\* The Logger in use with that list left alone: every step of Next but the
\* calls of addSink, removeSink and flush.
FixedSinksNext ==
    \/ ProducerNext
    \/ WriterNext
    \/ Start
    \/ \E flush \in BOOLEAN : Shutdown(flush)
    \/ ShutdownLog \/ LogResume(Ctl) \/ ShutdownStop
    \/ \E timedOut \in BOOLEAN : ShutdownJoin(timedOut)
    \/ ShutdownFuture
    \/ FlushCopy \/ FlushSink
    \/ \E t \in Loggers : SpuriousWakeup(t)

FixedSinksSpec == FixedSinksInit /\ [][FixedSinksNext]_vars

\* A Logger without sinks and without shutdown, log() followed from its
\* entry: the calls of log() with every level, start(), and the dispatch
\* thread popping the queue.
ProfileNext ==
    \/ \E t \in Producers :
         \/ \E level \in LogLevel : LogCall(t, level)
         \/ LogBody(t)
         \/ LogResume(t)
         \/ SpuriousWakeup(t)
    \/ Start
    \/ W_CheckStop \/ W_Lock \/ W_WaitOrPop \/ W_Wake

ProfileSpec == Init /\ [][ProfileNext]_vars

\* A running Logger without sinks and without shutdown, on which every
\* thread calls start() at any time, calls overlapping, next to log()
\* and the dispatch thread popping the queue.
StartNext ==
    \/ \E t \in Loggers : StartCall(t) \/ StartReturn(t) \/ StartSpawn(t)
    \/ \E t \in Producers : Log(t) \/ LogResume(t) \/ SpuriousWakeup(t)
    \/ W_CheckStop \/ W_Lock \/ W_WaitOrPop \/ W_Wake

StartSpec == Init /\ [][StartNext]_vars

\* Fairness of the scheduler: the dispatch thread keeps running (and every
\* call on a sink returns), the control thread finishes the call it is in,
\* and a thread woken from m_cv.wait gets the mutex.  Calls of log(),
\* addSink(), removeSink(), start(), shutdown() and spurious wake-ups are
\* left to the environment.
Fairness ==
    /\ WF_vars(WriterNext)
    /\ WF_vars(ControlContinue)
    /\ \A t \in Loggers : SF_vars(LogResume(t))

\* The Logger under the Block policy, with a fair scheduler.
FairInit == Init /\ m_policy = "Block"

FairSpec == FairInit /\ [][Next]_vars /\ Fairness

\* The steps of the dispatch thread that are not a call on a sink.
WriterInternal ==
    \/ W_CheckStop \/ W_Lock \/ W_WaitOrPop \/ W_Wake
    \/ W_BeginDispatch \/ W_EndDispatch \/ W_Remaining

\* A fair scheduler as above, with sinks whose consume() may never return:
\* no fairness for W_Consume.
HangingSinkSpec ==
    /\ Init /\ [][Next]_vars
    /\ WF_vars(WriterInternal)
    /\ WF_vars(ControlContinue)
    /\ \A t \in Loggers : SF_vars(LogResume(t))

\* ------------------------------------------------------------- observations
\* Records the dispatch thread has popped: admitted, no longer queued, and
\* not evicted by the DropOldest loop.
Dispatched == Range(admitted) \ (Range(m_queue) \cup evicted)

\* The admitted records not yet dispatched, in admission order.
NotDispatched == SelectSeq(admitted, LAMBDA r : r \notin Dispatched)

\* Logger::queueSize() (line 530-533).
queueSize == m_atomicQueueSize

\* Logger::droppedCount() (lines 535-538).
droppedCount == m_droppedCount

\* Threads inside the m_cv.wait of line 371.
Blocked == {t \in Loggers : pc[t] = "blocked"}

\* The step is a log() call reaching the queue (Log or ShutdownLog).
IsLogCall == nextRec' = nextRec + 1

\* ------------------------------------------------------------- claims

\* C1: under every policy and every m_maxQueue >= 1 the queue never holds
\* more than m_maxQueue records, and queueSize() never returns more than
\* m_maxQueue.
C1_BoundedQueue ==
    /\ Len(m_queue) <= m_maxQueue
    /\ queueSize <= m_maxQueue

\* C1 witness: the queue is at capacity after an overflow was handled and
\* after the dispatch thread has popped, with a shutdown under way.
C1_Witness ==
    /\ Len(m_queue) = m_maxQueue
    /\ queueSize = m_maxQueue
    /\ Len(admitted) > m_maxQueue
    /\ Dispatched # {}
    /\ stop_requested

\* C2: Conservation.  Under Block, when shutdown(true) returns after
\* joining the dispatch thread, every record admitted before the call has
\* been passed to consume() of the registered sinks (the case in which no
\* batch was popped while no sink was registered).
C2_Conservation ==
    [][(/\ pc[Ctl] \in {"sd_flush", "sd_flushing"}
        /\ pc'[Ctl] = "idle"
        /\ m_policy = "Block"
        /\ ~detached
        /\ m_sinks # <<>>
        /\ Dispatched \subseteq handed)
       => atShutdown \subseteq handed]_vars

\* C3: Final drain.  The dispatch thread exits, when not detached by a
\* shutdown timeout, only with an empty queue.
C3_FinalDrain ==
    [][(w_pc # "exited" /\ w_pc' = "exited" /\ ~detached) => m_queue = <<>>]_vars

\* C4: under DropOldest the queue is a contiguous suffix, of length at most
\* m_maxQueue, of the admitted records not yet dispatched, and
\* droppedCount() is the number of evicted records.
C4_DropOldestSuffix ==
    m_policy = "DropOldest" =>
        /\ IsSuffix(m_queue, NotDispatched)
        /\ Len(m_queue) <= m_maxQueue
        /\ droppedCount = Cardinality(evicted)

\* C4 witness: a full queue of more than one record after an eviction.
C4_Witness ==
    /\ m_policy = "DropOldest"
    /\ evicted # {}
    /\ Len(m_queue) = m_maxQueue
    /\ m_maxQueue > 1

\* C5: under DropNewest a log() call that finds the queue at capacity
\* leaves the queue as it is and increases droppedCount by exactly 1.
C5_DropNewestFrame ==
    [][(m_policy = "DropNewest" /\ IsLogCall /\ Len(m_queue) >= m_maxQueue)
         => (/\ m_queue' = m_queue
             /\ admitted' = admitted
             /\ droppedCount' = droppedCount + 1)]_vars

\* C5 witness: a record has been discarded at a full queue.
C5_Witness ==
    /\ m_policy = "DropNewest"
    /\ droppedCount > 0
    /\ Len(m_queue) = m_maxQueue

\* C6: under Block no record is discarded (each submitted record is in the
\* admitted history or still carried by a waiting caller), droppedCount
\* never changes, and a record is appended, at the back, only when the
\* queue holds fewer than m_maxQueue records.
C6_BlockKeepsRecords ==
    /\ [](m_policy = "Block" =>
            1..(nextRec - 1) = Range(admitted) \cup {rec[t] : t \in Blocked})
    /\ [][m_policy = "Block" =>
            /\ droppedCount' = droppedCount
            /\ admitted' # admitted =>
                 /\ Len(m_queue) < m_maxQueue
                 /\ m_queue' = Append(m_queue, admitted'[Len(admitted')])]_vars

\* C6 witness: a caller that waited has been admitted (the overflow path
\* appends without storing m_atomicQueueSize, so the queue is then longer
\* than the stored size).
C6_Witness ==
    /\ m_policy = "Block"
    /\ Blocked = {}
    /\ Len(m_queue) > queueSize

\* C7: under Block with a running dispatch loop, a producer blocked in
\* log() is eventually admitted (unless a stop is requested meanwhile).
C7_BlockedEventuallyAdmitted ==
    \A t \in Loggers :
        (pc[t] = "blocked" /\ w_pc \notin {"notStarted", "exited"} /\ ~stop_requested)
            ~> (pc[t] # "blocked" \/ stop_requested)

\* C8: the Logger mutex is not held by the dispatch thread while it hands a
\* batch to the sinks, nor by the caller of flushAllSinks while it flushes
\* them, and under DropOldest and DropNewest no log() call ever waits.
C8_NoLockAcrossSinkCalls ==
    /\ w_pc \in {"inc", "consume", "dec"} => m_mutex # HeldBy(Writer)
    /\ pc[Ctl] = "sd_flushing" => m_mutex # HeldBy(Ctl)
    /\ m_policy # "Block" => (Blocked = {} /\ waiters \cap Producers = {})

\* C8 witness: with a queue of capacity 1, a record was admitted while the
\* dispatch thread is inside consume() with the batch it popped.
C8_Witness ==
    /\ m_policy = "DropNewest"
    /\ m_maxQueue = 1
    /\ w_pc = "consume"
    /\ called # <<>>
    /\ m_queue # <<>>

\* C9: consume(batch) is called on every sink of the snapshot in
\* registration order, whether or not an earlier sink threw.
C9_Isolation ==
    /\ w_pc = "consume" => called = SubSeq(sinks_copy, 1, w_idx - 1)
    /\ w_pc = "dec" => called = sinks_copy

\* C9 witness: the first sink of the snapshot threw and the second was
\* called and returned.
C9_Witness ==
    /\ w_pc = "dec"
    /\ Len(called) = 2
    /\ threw = {called[1]}

\* C10: consume() is only invoked on a sink that is registered: once
\* removeSink(s) has erased s, no call on s follows.
C10_NoUseAfterRemoval ==
    [][(w_pc = "consume" /\ called' # called)
         => Contains(m_sinks, sinks_copy[w_idx])]_vars

\* C11: Flush completion.  When flush() returns on a Logger with a sink
\* registered, no record having been admitted and no log() call being
\* blocked since it was called, the queue is empty and no popped batch is
\* waiting to be handed to the sinks or being handed to them.
C11_FlushCompletion ==
    [][(/\ pc[Ctl] = "fl_flushing"
        /\ pc'[Ctl] = "idle"
        /\ m_sinks = f_sinks
        /\ Range(admitted) = atShutdown
        /\ Blocked = {})
       => (/\ m_queue = <<>>
           /\ w_pc \notin {"inc", "consume"})]_vars

\* C12: a flush() call returns, whatever the state of the Logger it is
\* made in.
C12_FlushReturns ==
    (pc[Ctl] \in {"fl_prewait", "fl_wait", "fl_flush", "fl_flushing"})
        ~> (pc[Ctl] = "idle")

\* C13: shutdown() always returns: once it has requested the stop and waits
\* for the dispatch thread, it returns even if the dispatch thread never
\* finishes (a consume() that never returns).
C13_ShutdownReturns ==
    (pc[Ctl] = "sd_join") ~> (pc[Ctl] = "idle")

\* C14: shutdown(true) on a running Logger calls flush() on the sinks only
\* after the dispatch loop has stopped handing batches to them: while
\* shutdown is inside flushAllSinks the dispatch thread has no popped
\* batch to hand, or being handed, to the sinks.
C14_FlushAfterLoopStopped ==
    pc[Ctl] \in {"sd_flush", "sd_flushing"} => w_pc \notin {"inc", "consume"}

\* The lowest level each profile lets through.
C17_Floor ==
    [p \in LoggingProfile |->
        CASE p = "Weak" -> Error [] p = "Medium" -> Info [] p = "Strong" -> Trace]

\* C17: Profile filter.  A log(level, ...) call reaches the queue step
\* (append or overflow policy) if and only if level >= floor(profile); a
\* call below the floor leaves the queue and droppedCount unchanged.
C17_ProfileFilter ==
    [][\A t \in Producers :
         (pc[t] = "log_called" /\ pc'[t] # "log_called") =>
            /\ (nextRec' = nextRec + 1) <=> (lvl[t] >= C17_Floor[m_profile])
            /\ lvl[t] >= C17_Floor[m_profile] =>
                 \/ admitted' = Append(admitted, nextRec)
                 \/ pc'[t] = "blocked" /\ rec'[t] = nextRec
                 \/ droppedCount' = droppedCount + 1
            /\ lvl[t] < C17_Floor[m_profile] =>
                 /\ m_queue' = m_queue
                 /\ droppedCount' = droppedCount
                 /\ pc'[t] = "idle"]_vars

\* C17 witness: under Weak, with one record admitted, a call with level
\* Warn is at the filter.
C17_Witness ==
    /\ m_profile = "Weak"
    /\ \E t \in Producers : pc[t] = "log_called" /\ lvl[t] = Warn
    /\ Len(admitted) = 1

\* C15: start() is idempotent.  A start() call made while the Logger is
\* Running (m_running set) returns without spawning, overlapping calls
\* included, so that no more than one dispatch loop is ever spawned on a
\* Logger that is not shut down, and there is none unless m_running is set.
C15_StartIdempotent ==
    /\ loops <= 1
    /\ Cardinality({t \in Loggers : pc[t] = "st_spawn"}) + loops <= 1
    /\ w_pc # "notStarted" => (m_running /\ loops = 1)

\* C15 witness: two overlapping start() calls, the first about to spawn
\* and the second about to return.
C15_Witness ==
    /\ \E t \in Loggers : pc[t] = "st_spawn"
    /\ \E t \in Loggers : pc[t] = "st_return"

\* The admitted records that the DropOldest loop did not evict, in the
\* order of their admission.
C16_NotEvicted == SelectSeq(admitted, LAMBDA r : r \notin evicted)

LineSizes == {ShortLine, LongLine}

\* Sum of the lengths of the lines of a sequence (std::string::size).
RECURSIVE Bytes(_)
Bytes(q) == IF q = <<>> THEN 0 ELSE q[1][2] + Bytes(Tail(q))

Ids(q) == {q[i][1] : i \in 1..Len(q)}

\* The lines of a batch of n records whose lengths are given by sz, numbered
\* from nextLine (consume, lines 198-207).
Lines(sz) == [i \in 1..Len(sz) |-> <<nextLine + i - 1, sz[i]>>]

BatchSizes == UNION {[1..n -> LineSizes] : n \in 1..MaxBatchLines}

\* consume, lines 219-223: the number of lines popped from the front of q
\* while the queue is not empty and freed_size < need_to_free.
RECURSIVE EvictCount(_, _, _)
EvictCount(q, freed_size, need_to_free) ==
    IF q # <<>> /\ freed_size < need_to_free
    THEN 1 + EvictCount(Tail(q), freed_size + q[1][2], need_to_free)
    ELSE 0

\* consume, lines 208-236, under m_mutex: room is made for the lines and
\* they are appended to the queue.
Enqueue(lines) ==
    LET total_batch_size == Bytes(lines)
        threshold == m_flushThresholdBytes * 10
        current_size == file_currentQueueSize
        need_to_free == (current_size + total_batch_size) - threshold
        n == EvictCount(file_queue, 0, need_to_free)
        freed_size == Bytes(SubSeq(file_queue, 1, n))
        dropped_count ==
            (freed_size + total_batch_size - need_to_free) \div lines[1][2]
    IN  IF current_size + total_batch_size > threshold
        THEN /\ file_queue' = DropFirst(file_queue, n) \o lines
             /\ file_dropped' = file_dropped + dropped_count
             /\ file_currentQueueSize' =
                    (file_currentQueueSize - freed_size) + total_batch_size
             /\ file_evicted' = file_evicted + n
        ELSE /\ file_queue' = file_queue \o lines
             /\ file_currentQueueSize' =
                    file_currentQueueSize + total_batch_size
             /\ UNCHANGED <<file_dropped, file_evicted>>

\* FileLogger::consume (lines 190-239) of a batch whose lines have the
\* lengths sz, with no step of another thread between its lines.
FileConsume(sz) ==
    /\ nextLine + Len(sz) - 1 <= MaxLines
    /\ cons_pc = "idle"
    /\ file_running => file_mutex = "free"
    /\ IF ~file_running
       THEN /\ file_dropped' = file_dropped + Len(sz)
            /\ UNCHANGED <<file_queue, file_currentQueueSize, file_evicted>>
       ELSE Enqueue(Lines(sz))
    /\ nextLine' = nextLine + Len(sz)
    /\ UNCHANGED <<besideFile, closeVars, file_running, file_immediate,
                   local_buffer, immediate_flush, fw_pc, ff_pc, file_written,
                   ff_atCall, ff_completed>>

\* writerLoop, lines 270-275: the number of lines moved from the front of q
\* to a buffer that holds size bytes.
RECURSIVE ExtractCount(_, _)
ExtractCount(q, size) ==
    IF q # <<>> /\ size < m_flushThresholdBytes
    THEN 1 + ExtractCount(Tail(q), size + q[1][2])
    ELSE 0

\* writerLoop, lines 270-277, under m_mutex.
Extract ==
    LET n == ExtractCount(file_queue, Bytes(local_buffer))
        extracted_size == Bytes(SubSeq(file_queue, 1, n))
    IN  /\ local_buffer' = local_buffer \o SubSeq(file_queue, 1, n)
        /\ file_queue' = DropFirst(file_queue, n)
        /\ file_currentQueueSize' = file_currentQueueSize - extracted_size

\* writerLoop, line 249 and lines 297-300: the condition of the loop, read
\* without the mutex; when it is false the thread writes what is left in
\* local_buffer and ends.
FW_Top ==
    /\ fw_pc = "top"
    /\ IF ~file_stop \/ file_queue # <<>>
       THEN /\ fw_pc' = "lock"
            /\ UNCHANGED <<local_buffer, file_written>>
       ELSE /\ fw_pc' = "exited"
            /\ file_written' = file_written \o local_buffer
            /\ local_buffer' = <<>>
    /\ UNCHANGED <<besideFile, closeVars, file_queue, file_currentQueueSize,
                   file_dropped, file_running, file_immediate, immediate_flush,
                   ff_pc, nextLine, file_evicted, ff_atCall, ff_completed>>

\* writerLoop, lines 251-278: m_mutex is taken and the critical section
\* run; with an empty queue and no stop request the thread sleeps in
\* wait_for, which releases the mutex.
FW_Enter ==
    /\ fw_pc = "lock"
    /\ file_mutex = "free"
    /\ immediate_flush' = file_immediate
    /\ file_immediate' = FALSE
    /\ IF file_queue = <<>> /\ ~file_stop
       THEN /\ fw_pc' = "waiting"
            /\ UNCHANGED <<file_queue, file_currentQueueSize, local_buffer>>
       ELSE /\ fw_pc' = "write"
            /\ Extract
    /\ UNCHANGED <<besideFile, closeVars, file_dropped, file_running, ff_pc, nextLine,
                   file_written, file_evicted, ff_atCall, ff_completed>>

\* writerLoop, lines 264-278: wait_for returns, because of a notification
\* with a line queued or because m_flushIntervalMs have passed.
FW_Wake ==
    /\ fw_pc = "waiting"
    /\ file_mutex = "free"
    /\ fw_pc' = "write"
    /\ Extract
    /\ UNCHANGED <<besideFile, closeVars, file_dropped, file_running, file_immediate,
                   immediate_flush, ff_pc, nextLine, file_written,
                   file_evicted, ff_atCall, ff_completed>>

\* writerLoop, lines 280-294, with the result of writeBufferToDisk (lines
\* 303-359).
FW_Write(ok) ==
    /\ fw_pc = "write"
    /\ fw_pc' = "top"
    /\ IF local_buffer # <<>> \/ immediate_flush
       THEN /\ local_buffer' = <<>>
            /\ IF ok
               THEN /\ file_written' = file_written \o local_buffer
                    /\ UNCHANGED file_dropped
               ELSE /\ file_dropped' =
                           file_dropped + (Bytes(local_buffer) \div 100)
                    /\ UNCHANGED file_written
       ELSE /\ ok
            /\ UNCHANGED <<local_buffer, file_written, file_dropped>>
    /\ UNCHANGED <<besideFile, closeVars, file_queue, file_currentQueueSize,
                   file_running, file_immediate, immediate_flush, ff_pc,
                   nextLine, file_evicted, ff_atCall, ff_completed>>

\* flush, line 506: the local flag is constructed true and never stored to.
flush_in_progress == TRUE

\* FileLogger::m_buffer: no statement of lines 1-620 appends to it; the
\* writer thread fills its own local_buffer.
m_buffer == <<>>

\* flush, lines 515-518: the predicate of the wait.
FlushPredicate ==
    file_queue = <<>> /\ m_buffer = <<>> /\ ~flush_in_progress

\* FileLogger::flush, lines 506-510: the request to the writer thread.
FF_Call ==
    /\ ff_pc = "idle"
    /\ file_mutex = "free"
    /\ ff_pc' = "waiting"
    /\ file_immediate' = TRUE
    /\ ff_atCall' = Ids(file_queue) \cup Ids(local_buffer)
    /\ UNCHANGED <<besideFile, closeVars, file_queue, file_currentQueueSize,
                   file_dropped, file_running, local_buffer, immediate_flush,
                   fw_pc, nextLine, file_written, file_evicted, ff_completed>>

\* FileLogger::flush, lines 511-542: wait_for returns true as soon as its
\* predicate is true, and the value of the predicate once 5 seconds have
\* passed; then FlushFileBuffers and return.
FF_Return ==
    /\ ff_pc = "waiting"
    /\ file_mutex = "free"
    /\ ff_pc' = "idle"
    /\ ff_completed' = FlushPredicate
    /\ UNCHANGED <<besideFile, closeVars, file_queue, file_currentQueueSize,
                   file_dropped, file_running, file_immediate, local_buffer,
                   immediate_flush, fw_pc, nextLine, file_written,
                   file_evicted, ff_atCall>>

FileNext ==
    \/ \E sz \in BatchSizes : FileConsume(sz)
    \/ FW_Top
    \/ FW_Enter
    \/ FW_Wake
    \/ \E ok \in BOOLEAN : FW_Write(ok)
    \/ FF_Call
    \/ FF_Return

\* What no step of close() changes.
CloseFrame ==
    UNCHANGED <<besideFile, file_currentQueueSize, file_dropped,
                file_immediate, local_buffer, immediate_flush, fw_pc, ff_pc,
                nextLine, file_evicted, ff_atCall, ff_completed, cons_pc,
                cons_lines>>

\* FileLogger::close, lines 548-560: the exchange on m_running; the first
\* call requests the writer thread to stop and wakes it, a later call
\* returns at once.
FC_Call ==
    /\ fc_pc \in {"idle", "done"}
    /\ IF file_running
       THEN /\ file_running' = FALSE
            /\ file_stop' = joinable
            /\ fc_pc' = IF joinable THEN "loop" ELSE "drain"
            /\ UNCHANGED fc_repeated
       ELSE /\ fc_repeated' = TRUE
            /\ UNCHANGED <<file_running, file_stop, fc_pc>>
    /\ UNCHANGED <<file_queue, file_written, file_mutex, joinable, final_data>>
    /\ CloseFrame

\* close, lines 564-569: more than 10 seconds have passed in the loop; the
\* writer thread is detached.
FC_Timeout ==
    /\ fc_pc = "loop"
    /\ joinable' = FALSE
    /\ fc_pc' = "drain"
    /\ UNCHANGED <<file_queue, file_written, file_running, file_stop,
                   file_mutex, final_data, fc_repeated>>
    /\ CloseFrame

\* close, lines 571-577: after 50 ms m_mutex is taken; with the queue empty
\* m_worker.join() is called inside the scope of the lock (with lines queued
\* the lock is released and the loop goes round, which changes nothing).
FC_Check ==
    /\ fc_pc = "loop"
    /\ file_mutex = "free"
    /\ file_queue = <<>>
    /\ file_mutex' = "close"
    /\ fc_pc' = "joining"
    /\ UNCHANGED <<file_queue, file_written, file_running, file_stop,
                   joinable, final_data, fc_repeated>>
    /\ CloseFrame

\* close, lines 577-581: join() returns once the writer thread has ended;
\* the lock is released at the end of the block.
FC_Joined ==
    /\ fc_pc = "joining"
    /\ fw_pc = "exited"
    /\ joinable' = FALSE
    /\ file_mutex' = "free"
    /\ fc_pc' = "drain"
    /\ UNCHANGED <<file_queue, file_written, file_running, file_stop,
                   final_data, fc_repeated>>
    /\ CloseFrame

\* close, lines 585-594: under m_mutex the queue and m_buffer are moved to
\* final_data.
FC_Drain ==
    /\ fc_pc = "drain"
    /\ file_mutex = "free"
    /\ final_data' = file_queue \o m_buffer
    /\ file_queue' = <<>>
    /\ fc_pc' = "write"
    /\ UNCHANGED <<file_written, file_running, file_stop, file_mutex,
                   joinable, fc_repeated>>
    /\ CloseFrame

\* close, lines 596-612: writeBufferToDisk(final_data), whose result is not
\* looked at, and the handle is closed.
FC_Write(ok) ==
    /\ fc_pc = "write"
    /\ IF final_data # <<>>
       THEN file_written' = IF ok THEN file_written \o final_data
                            ELSE file_written
       ELSE ok /\ UNCHANGED file_written
    /\ final_data' = <<>>
    /\ fc_pc' = "done"
    /\ UNCHANGED <<file_queue, file_running, file_stop, file_mutex, joinable,
                   fc_repeated>>
    /\ CloseFrame

\* consume, lines 192-207, in a thread that runs beside close(): m_running
\* is read as true and the lines are serialized; m_mutex is not yet taken.
CC_Serialize(sz) ==
    /\ cons_pc = "idle"
    /\ file_running
    /\ nextLine + Len(sz) - 1 <= MaxLines
    /\ cons_lines' = Lines(sz)
    /\ nextLine' = nextLine + Len(sz)
    /\ cons_pc' = "serialized"
    /\ UNCHANGED <<besideFile, file_queue, file_currentQueueSize,
                   file_dropped, file_running, file_immediate, local_buffer,
                   immediate_flush, fw_pc, ff_pc, file_written, file_evicted,
                   ff_atCall, ff_completed, file_stop, file_mutex, joinable,
                   fc_pc, final_data, fc_repeated>>

\* consume, lines 208-238, of the same thread: m_mutex is taken and the
\* lines are appended to the queue, whatever m_running is by now.
CC_Enqueue ==
    /\ cons_pc = "serialized"
    /\ file_mutex = "free"
    /\ Enqueue(cons_lines)
    /\ cons_lines' = <<>>
    /\ cons_pc' = "idle"
    /\ UNCHANGED <<besideFile, file_running, file_immediate, local_buffer,
                   immediate_flush, fw_pc, ff_pc, nextLine, file_written,
                   ff_atCall, ff_completed, file_stop, file_mutex, joinable,
                   fc_pc, final_data, fc_repeated>>

CloseNext ==
    \/ FileNext
    \/ \E sz \in BatchSizes : CC_Serialize(sz)
    \/ CC_Enqueue
    \/ FC_Call
    \/ FC_Timeout
    \/ FC_Check
    \/ FC_Joined
    \/ FC_Drain
    \/ \E ok \in BOOLEAN : FC_Write(ok)

\* The FileLogger beside one Logger that is constructed and left alone.
FileSpecInit ==
    /\ Init
    /\ m_maxQueue = MaxQueueCap
    /\ m_policy = "Block"
    /\ m_profile = "Strong"

FileSpec == FileSpecInit /\ [][FileNext]_vars

\* The FileLogger with close().
CloseSpec == FileSpecInit /\ [][CloseNext]_vars

\* C23: close() does not wait for the writer thread while holding a lock the
\* writer thread needs: it is never inside m_worker.join() with m_mutex held
\* while the writer thread is about to take m_mutex (line 254) or to take it
\* again on its way out of wait_for (line 264), so that close() returns.
C23_CloseAlwaysReturns ==
    ~(fc_pc = "joining" /\ file_mutex = "close" /\ fw_pc \in {"lock", "waiting"})

\* C19: FileLogger::flush takes the timeout path (completed = false, the
\* diagnostic of line 522) only when the internal queue or the buffer is not
\* empty at the end of the wait; with both empty it returns normally.
C19_FlushTimeoutOnlyWhenPending ==
    [][(ff_pc = "waiting" /\ ff_pc' = "idle" /\ ~ff_completed')
          => (file_queue # <<>> \/ local_buffer # <<>> \/ m_buffer # <<>>)]_vars

\* C18: when FileLogger::flush returns, no line accepted by a consume() that
\* completed before the call is still in the internal queue or in the buffer
\* of the writer thread.
C18_FlushLeavesNothingPending ==
    [][(ff_pc = "waiting" /\ ff_pc' = "idle")
          => (ff_atCall \cap (Ids(file_queue) \cup Ids(local_buffer)) = {})]_vars

\* C20: FileLogger::consume of a batch that does not fit under the ceiling
\* of 10 x m_flushThresholdBytes pops lines from the front of the queue only
\* until there is room, adds exactly the number of popped lines to the
\* dropped count and appends the batch in order; a batch that fits pops
\* nothing and leaves the dropped count unchanged.
C20_ConsumeEviction ==
    [][(nextLine' # nextLine) =>
          LET new == [i \in 1..(nextLine' - nextLine) |->
                         file_queue'[Len(file_queue') - (nextLine' - nextLine) + i]]
              n == Len(file_queue) + (nextLine' - nextLine) - Len(file_queue')
              ceiling == m_flushThresholdBytes * 10
              Room(k) == Bytes(DropFirst(file_queue, k)) + Bytes(new) <= ceiling
          IN  /\ n \in 0..Len(file_queue)
              /\ file_queue' = DropFirst(file_queue, n) \o new
              /\ \A i \in 1..Len(new) : new[i][1] = nextLine + i - 1
              /\ file_dropped' = file_dropped + n
              /\ (n > 0) => ~Room(n - 1)
              /\ Room(n) \/ n = Len(file_queue)]_vars

(***************************************************************************)
(* FileLogger::writeBufferToDisk (FileLogger.cpp lines 303-359), one       *)
(* WriteFile call at a time, with rotateFile and cleanupOldFiles.  The     *)
(* calls of the operating system succeed or fail as the environment        *)
(* decides.                                                                *)
(***************************************************************************)

\* writeBufferToDisk, line 319.
to_write == Min(remaining, kMaxSingleWrite)

\* What WriteFile can report (line 322): success with the number of bytes
\* written, or failure with nothing written; GetLastError (line 325) is
\* ERROR_DISK_FULL or ERROR_ACCESS_DENIED ("fatal") or something else.
WriteOutcomes ==
    [ok : {TRUE}, written : 1..to_write, error : {"fatal", "other"}]
        \cup [ok : {FALSE}, written : {0}, error : {"fatal", "other"}]

\* The second WriteFile (line 338): only its BOOL is looked at.
RetryOutcomes ==
    [ok : {TRUE}, written : 1..to_write] \cup [ok : {FALSE}, written : {0}]

\* writeBufferToDisk returns FALSE: the rest of the buffer is not written.
ReturnFalse ==
    /\ wb_pc' = "idle"
    /\ wb_result' = FALSE
    /\ faults' = TRUE

\* writeBufferToDisk, lines 345-355, after a chunk of `written` bytes.
Advance(written) ==
    /\ remaining' = remaining - written
    /\ m_currentFileBytes' = m_currentFileBytes + written
    /\ totalWritten' = totalWritten + written
    /\ activeSize' = activeSize + written
    /\ activeMtime' = now
    /\ wb_pc' = IF m_currentFileBytes + written >= m_maxFileBytes THEN "rotate"
                ELSE IF remaining - written > 0 THEN "write"
                ELSE "flush"

\* writeBufferToDisk is called with a buffer of n bytes (lines 305-314);
\* with no handle it calls openLogFile (lines 127-188) first.
WB_Begin(n, openOk) ==
    /\ wb_pc = "idle"
    /\ handedBytes + n <= MaxDiskBytes
    /\ handedBytes' = handedBytes + n
    /\ attempts' = 0
    /\ lastError' = "none"
    /\ IF m_fileHandle
       THEN /\ openOk
            /\ remaining' = n
            /\ wb_pc' = "write"
            /\ UNCHANGED <<m_fileHandle, m_currentFileBytes, wb_result, faults>>
       ELSE IF openOk
       THEN /\ m_fileHandle' = TRUE
            /\ m_currentFileBytes' = activeSize
            /\ remaining' = n
            /\ wb_pc' = "write"
            /\ UNCHANGED <<wb_result, faults>>
       ELSE /\ ReturnFalse
            /\ UNCHANGED <<m_fileHandle, m_currentFileBytes, remaining>>
    /\ UNCHANGED <<besideDisk, m_maxFileBytes, m_rotateCount, activeSize,
                   activeMtime, archives, now, rotations, deleted,
                   totalWritten>>

\* writeBufferToDisk, lines 319-331: the first WriteFile of a chunk.
WB_Write(o) ==
    /\ wb_pc = "write"
    /\ remaining > 0
    /\ attempts' = 1
    /\ IF o.ok /\ o.written = to_write
       THEN /\ o.error = "other"
            /\ lastError' = "none"
            /\ Advance(to_write)
            /\ UNCHANGED <<wb_result, faults>>
       ELSE /\ lastError' = o.error
            /\ activeSize' = activeSize + o.written
            /\ activeMtime' = IF o.written > 0 THEN now ELSE activeMtime
            /\ IF o.error = "fatal"
               THEN ReturnFalse
               ELSE /\ wb_pc' = "recover"
                    /\ faults' = TRUE
                    /\ UNCHANGED wb_result
            /\ UNCHANGED <<remaining, m_currentFileBytes, totalWritten>>
    /\ UNCHANGED <<besideDisk, m_maxFileBytes, m_rotateCount, m_fileHandle,
                   archives, now, rotations, deleted, handedBytes>>

\* recoverFromWriteError (lines 361-371): the handle is closed and, after
\* 100 ms, openLogFile is called.
WB_Recover(openOk) ==
    /\ wb_pc = "recover"
    /\ m_fileHandle' = openOk
    /\ IF openOk
       THEN /\ m_currentFileBytes' = activeSize
            /\ wb_pc' = "retry"
            /\ UNCHANGED <<wb_result, faults>>
       ELSE /\ ReturnFalse
            /\ UNCHANGED m_currentFileBytes
    /\ UNCHANGED <<besideDisk, m_maxFileBytes, m_rotateCount, remaining,
                   activeSize, activeMtime, archives, now, attempts, lastError,
                   rotations, deleted, handedBytes, totalWritten>>

\* A retry that goes back to recoverFromWriteError when it fails.
WB_Retry_Again(o) ==
    /\ wb_pc = "retry"
    /\ attempts' = attempts + 1
    /\ IF o.ok
       THEN /\ Advance(o.written)
            /\ UNCHANGED <<wb_result, faults>>
       ELSE /\ wb_pc' = "recover"
            /\ UNCHANGED <<remaining, m_currentFileBytes, totalWritten,
                           activeSize, activeMtime, wb_result, faults>>
    /\ UNCHANGED lastError
    /\ UNCHANGED <<besideDisk, m_maxFileBytes, m_rotateCount, m_fileHandle,
                   archives, now, rotations, deleted, handedBytes>>

\* writeBufferToDisk, lines 338-355: the second WriteFile of the chunk.
WB_Retry(o) ==
    /\ wb_pc = "retry"
    /\ attempts' = attempts + 1
    /\ IF o.ok
       THEN /\ Advance(o.written)
            /\ UNCHANGED <<wb_result, faults>>
       ELSE /\ ReturnFalse
            /\ UNCHANGED <<remaining, m_currentFileBytes, totalWritten,
                           activeSize, activeMtime>>
    /\ UNCHANGED lastError
    /\ UNCHANGED <<besideDisk, m_maxFileBytes, m_rotateCount, m_fileHandle,
                   archives, now, rotations, deleted, handedBytes>>

Names == {a.name : a \in archives}

\* rotateFile, lines 400-432: the name made of the time, or the same with
\* ".unique" when a file of that name exists; none when both exist.
NewNames ==
    IF <<now, FALSE>> \notin Names THEN {<<now, FALSE>>}
    ELSE IF <<now, TRUE>> \notin Names THEN {<<now, TRUE>>}
    ELSE {}

\* cleanupOldFiles (lines 450-491) keeping the oldest files: the sort of
\* line 480 in descending order.
Cleanup_KeepOldest(files, D) ==
    IF m_rotateCount = 0 \/ Cardinality(files) <= m_rotateCount
    THEN D = {}
    ELSE /\ Cardinality(D) = Cardinality(files) - m_rotateCount
         /\ \A d \in D : \A f \in files \ D : d.mtime >= f.mtime
         /\ \A d \in D : \A f \in files \ D : d.mtime = f.mtime => d.n > f.n

\* cleanupOldFiles (lines 450-491): D is the set of files it deletes from
\* `files`, the first size - m_rotateCount of them in ascending order of
\* last-write time (files of equal time in any order).
Cleanup(files, D) ==
    IF m_rotateCount = 0 \/ Cardinality(files) <= m_rotateCount
    THEN D = {}
    ELSE /\ Cardinality(D) = Cardinality(files) - m_rotateCount
         /\ \A d \in D : \A f \in files \ D : d.mtime <= f.mtime

\* rotateFile (lines 388-447), called at line 351: the active file is
\* closed and renamed, old archival files are deleted and a new active file
\* is opened; when the rename fails the old file is opened again.
WB_Rotate(moveOk, openOk) ==
    /\ wb_pc = "rotate"
    /\ m_fileHandle' = openOk
    /\ IF moveOk /\ NewNames # {}
       THEN \E name \in NewNames :
            \E D \in SUBSET (archives \cup {[n |-> rotations + 1, name |-> name,
                                               mtime |-> activeMtime]}) :
               LET files == archives \cup {[n |-> rotations + 1, name |-> name,
                                            mtime |-> activeMtime]}
               IN  /\ Cleanup(files, D)
                   /\ archives' = files \ D
                   /\ deleted' = deleted \cup D
                   /\ rotations' = rotations + 1
                   /\ activeSize' = 0
                   /\ activeMtime' = now
                   /\ m_currentFileBytes' = 0
                   /\ IF openOk
                      THEN /\ wb_pc' = IF remaining > 0 THEN "write" ELSE "flush"
                           /\ UNCHANGED <<wb_result, faults>>
                      ELSE ReturnFalse
       ELSE /\ UNCHANGED <<archives, deleted, rotations, activeSize, activeMtime>>
            /\ IF openOk
               THEN /\ m_currentFileBytes' = activeSize
                    /\ wb_pc' = IF remaining > 0 THEN "write" ELSE "flush"
                    /\ faults' = TRUE
                    /\ UNCHANGED wb_result
               ELSE /\ ReturnFalse
                    /\ UNCHANGED m_currentFileBytes
    /\ UNCHANGED <<besideDisk, m_maxFileBytes, m_rotateCount, remaining, now,
                   attempts, lastError, handedBytes, totalWritten>>

\* writeBufferToDisk, line 358: the result of conditionalFlush (lines
\* 373-386) is returned.
WB_End(ok) ==
    /\ wb_pc = "flush"
    /\ wb_pc' = "idle"
    /\ wb_result' = ok
    /\ faults' = (faults \/ ~ok)
    /\ UNCHANGED <<besideDisk, m_maxFileBytes, m_rotateCount, m_fileHandle,
                   m_currentFileBytes, remaining, activeSize, activeMtime,
                   archives, now, attempts, lastError, rotations, deleted,
                   handedBytes, totalWritten>>

\* The system clock advances.
Tick ==
    /\ now < MaxTime
    /\ now' = now + 1
    /\ UNCHANGED <<besideDisk, m_maxFileBytes, m_rotateCount, m_fileHandle,
                   m_currentFileBytes, remaining, wb_pc, activeSize,
                   activeMtime, archives, attempts, lastError, rotations,
                   deleted, handedBytes, totalWritten, faults, wb_result>>

DiskNext ==
    \/ \E n \in 1..MaxBufferBytes : \E openOk \in BOOLEAN : WB_Begin(n, openOk)
    \/ \E o \in WriteOutcomes : WB_Write(o)
    \/ \E openOk \in BOOLEAN : WB_Recover(openOk)
    \/ \E o \in RetryOutcomes : WB_Retry(o)
    \/ \E moveOk \in BOOLEAN : \E openOk \in BOOLEAN : WB_Rotate(moveOk, openOk)
    \/ \E ok \in BOOLEAN : WB_End(ok)
    \/ Tick

\* The FileLogger's file side, for every m_maxFileBytes and m_rotateCount,
\* beside a Logger and a line queue that are constructed and left alone.
DiskSpecInit ==
    /\ LoggerInitWith(<<>>)
    /\ m_maxQueue = MaxQueueCap
    /\ m_policy = "Block"
    /\ m_profile = "Strong"
    /\ FileInit
    /\ DiskInit
    /\ EventInit
    /\ ~ev_pool
    /\ NoRecord
    /\ SendInit
    /\ m_hEventLog

DiskSpec == DiskSpecInit /\ [][DiskNext]_vars

\* C21: starting from an empty active file, once maxFileBytes + 1 bytes
\* have been written without any failure, whatever their split into buffers
\* and chunks, exactly one archival file has been created and the tracked
\* byte count of the active file is 0.
C21_RotationAtMaxPlusOne ==
    (wb_pc = "idle" /\ ~faults /\ totalWritten = m_maxFileBytes + 1)
        => (rotations = 1 /\ m_currentFileBytes = 0)

C30_BoundedRetry ==
    /\ [](attempts <= 2)
    /\ [](wb_pc \in {"recover", "retry"} => (attempts = 1 /\ lastError = "other"))
    /\ [][(attempts' > attempts /\ attempts >= 1)
             => (wb_pc = "retry" /\ m_fileHandle /\ lastError = "other")]_vars
    /\ [][(wb_pc = "write" /\ lastError' = "fatal")
             => (wb_pc' = "idle" /\ wb_result' = FALSE /\ attempts' = 1)]_vars
    /\ [][(wb_pc # "idle" /\ wb_pc' = "idle" /\ ~wb_result')
             => (remaining' = remaining /\ totalWritten' = totalWritten)]_vars
    /\ [][(totalWritten' # totalWritten) => wb_pc \in {"write", "retry"}]_vars

\* A buffer was abandoned after a failed retry and a later buffer has been
\* written completely.
C30_Witness ==
    /\ wb_pc = "flush"
    /\ ~wb_result
    /\ attempts = 2
    /\ remaining = 0
    /\ handedBytes > totalWritten

(***************************************************************************)
(* EventLogSink (EventLogSink.h lines 95-504).  close() is not followed:   *)
(* m_running stays set and the stop token of m_worker is never requested.  *)
(***************************************************************************)

\* Unsigned subtraction on m_current_queue_memory.
MemSub(mem, x) == (mem + MemModulus - (x % MemModulus)) % MemModulus

\* consume, lines 230-231 and 234-235, for a batch of n lines.
OverCeiling(q, mem, n) ==
    \/ Len(q) + n > MAX_QUEUE_SIZE
    \/ (mem + n * EventLineLen) % MemModulus > MAX_QUEUE_MEMORY

\* consume, lines 233-240: the number of lines popped from the front of q.
RECURSIVE EventEvictCount(_, _, _)
EventEvictCount(q, mem, n) ==
    IF q # <<>> /\ OverCeiling(q, mem, n)
    THEN 1 + EventEvictCount(Tail(q),
                             MemSub(mem, EventLineLen * sizeof_wchar_t), n)
    ELSE 0

\* What no step of consume() changes.
ConsumeFrame ==
    UNCHANGED <<besideEvent, ev_pool, ev_running, ev_immediate, m_tasks,
                ew_pc, ew_batch, ew_immediate, ef_pc, ev_sent, ev_failed,
                ef_atCall, ef_success>>

\* consume that does not count the lines it evicts.
EventConsume_Uncounted(n) ==
    /\ ev_nextLine + n - 1 <= MaxEventLines
    /\ ev_nextLine' = ev_nextLine + n
    /\ LET lines == [i \in 1..n |-> ev_nextLine + i - 1]
           k == EventEvictCount(ev_queue, ev_memory, n)
       IN  /\ ev_queue' = DropFirst(ev_queue, k) \o lines
           /\ ev_lost' = ev_lost \cup {ev_queue[i] : i \in 1..k}
           /\ ev_dropped' = ev_dropped
           /\ ev_memory' =
                  (MemSub(ev_memory, k * EventLineLen * sizeof_wchar_t)
                      + n * MovedFromLen * sizeof_wchar_t) % MemModulus
    /\ ConsumeFrame

\* EventLogSink::consume (lines 192-251) of a batch of n records.
EventConsume(n) ==
    /\ ev_nextLine + n - 1 <= MaxEventLines
    /\ ev_nextLine' = ev_nextLine + n
    /\ IF ~ev_running
       THEN /\ ev_dropped' = ev_dropped + n
            /\ UNCHANGED <<ev_queue, ev_lost, ev_memory>>
       ELSE LET lines == [i \in 1..n |-> ev_nextLine + i - 1]
                k == EventEvictCount(ev_queue, ev_memory, n)
            IN  /\ ev_queue' = DropFirst(ev_queue, k) \o lines
                /\ ev_lost' = ev_lost \cup {ev_queue[i] : i \in 1..k}
                /\ ev_dropped' = ev_dropped + k
                /\ ev_memory' =
                       (MemSub(ev_memory, k * EventLineLen * sizeof_wchar_t)
                           + n * MovedFromLen * sizeof_wchar_t) % MemModulus
    /\ ConsumeFrame

\* writerLoop lines 276-281 and the task's lines 426-430, under m_mutex:
\* context i pops its batch.
PopEventBatch(i) ==
    LET k == Min(Len(ev_queue), kEventBatch)
    IN  /\ ew_batch' = [ew_batch EXCEPT ![i] = SubSeq(ev_queue, 1, k)]
        /\ ev_queue' = DropFirst(ev_queue, k)
        /\ ev_memory' = MemSub(ev_memory, k * EventLineLen * sizeof_wchar_t)

\* Where a context goes when its pass is over: the top of writerLoop, or
\* back to the pool.
Home == IF ev_pool THEN "idle" ELSE "top"

\* What no step of a writer context changes.
WriterFrame ==
    UNCHANGED <<besideEvent, ev_pool, ev_running, ef_pc, ev_nextLine, ev_lost,
                ef_atCall, ef_success>>

\* writerLoop, lines 255-284, in the sink's own thread: one pass from the
\* loop condition through the critical section.
EW_Top ==
    /\ ~ev_pool
    /\ ew_pc[1] = "top"
    /\ IF ev_immediate /\ ev_queue = <<>>
       THEN /\ ev_immediate' = FALSE
            /\ UNCHANGED <<ev_queue, ev_memory, ew_pc, ew_batch, ew_immediate>>
       ELSE IF ev_queue = <<>>
       THEN /\ ew_pc' = [ew_pc EXCEPT ![1] = "waiting"]
            /\ UNCHANGED <<ev_queue, ev_memory, ev_immediate, ew_batch,
                           ew_immediate>>
       ELSE /\ PopEventBatch(1)
            /\ ew_immediate' = [ew_immediate EXCEPT ![1] = ev_immediate]
            /\ ew_pc' = [ew_pc EXCEPT ![1] = "process"]
            /\ UNCHANGED ev_immediate
    /\ UNCHANGED <<m_tasks, ev_dropped, ev_sent, ev_failed>>
    /\ WriterFrame

\* writerLoop, lines 270-287: wait_for returns, after 200 ms or with its
\* predicate true.
EW_Wake ==
    /\ ew_pc[1] = "waiting"
    /\ PopEventBatch(1)
    /\ ew_immediate' = [ew_immediate EXCEPT ![1] = ev_immediate]
    /\ ew_pc' = [ew_pc EXCEPT ![1] =
                    IF ev_queue # <<>> \/ ev_immediate THEN "process" ELSE "top"]
    /\ UNCHANGED <<m_tasks, ev_dropped, ev_immediate, ev_sent, ev_failed>>
    /\ WriterFrame

\* StdThreadPool::scheduleRecurringGeneric, lines 99-118: every interval the
\* timer thread enqueues one more run of the task.
EP_Timer ==
    /\ ev_pool
    /\ m_tasks < MaxTasks
    /\ m_tasks' = m_tasks + 1
    /\ UNCHANGED <<ev_queue, ev_memory, ev_dropped, ev_immediate, ew_pc,
                   ew_batch, ew_immediate, ev_sent, ev_failed>>
    /\ WriterFrame

\* StdThreadPool::workerLoop, lines 59-84, and the task of
\* startThreadManagerTask, lines 411-433: thread i of the pool takes a run of
\* the task and goes through its critical section.
EP_Run(i) ==
    /\ ev_pool
    /\ ew_pc[i] = "idle"
    /\ m_tasks > 0
    /\ m_tasks' = m_tasks - 1
    /\ IF ~ev_running \/ (ev_queue = <<>> /\ ~ev_immediate)
       THEN UNCHANGED <<ev_queue, ev_memory, ew_pc, ew_batch, ew_immediate>>
       ELSE /\ PopEventBatch(i)
            /\ ew_immediate' = [ew_immediate EXCEPT ![i] =
                                    ev_immediate /\ ev_queue' = <<>>]
            /\ ew_pc' = [ew_pc EXCEPT ![i] = "process"]
    /\ UNCHANGED <<ev_dropped, ev_immediate, ev_sent, ev_failed>>
    /\ WriterFrame

\* processBatch (lines 369-406) of the batch of context i: every line is
\* passed to sendEventWide in order, F are the lines whose send fails.
EW_Process(i, F) ==
    /\ ew_pc[i] = "process"
    /\ F \subseteq Range(ew_batch[i])
    /\ ev_sent' = ev_sent \o ew_batch[i]
    /\ ev_failed' = ev_failed \cup F
    /\ ev_dropped' = ev_dropped + Cardinality(F)
    /\ ew_batch' = [ew_batch EXCEPT ![i] = <<>>]
    /\ ew_pc' = [ew_pc EXCEPT ![i] = IF ew_immediate[i] THEN "after" ELSE Home]
    /\ UNCHANGED <<m_tasks, ev_queue, ev_memory, ev_immediate, ew_immediate>>
    /\ WriterFrame

\* writerLoop lines 291-299 and the task's lines 438-444: after an immediate
\* flush the flag is cleared when the queue is empty.
EW_After(i) ==
    /\ ew_pc[i] = "after"
    /\ ev_immediate' = (ev_immediate /\ ev_queue # <<>>)
    /\ ew_pc' = [ew_pc EXCEPT ![i] = Home]
    /\ UNCHANGED <<m_tasks, ev_queue, ev_memory, ev_dropped, ew_batch,
                   ew_immediate, ev_sent, ev_failed>>
    /\ WriterFrame

\* What no step of flush() changes.
EventFlushFrame ==
    UNCHANGED <<besideEvent, ev_pool, ev_queue, ev_memory, ev_dropped,
                ev_running, m_tasks, ew_pc, ew_batch, ew_immediate,
                ev_nextLine, ev_sent, ev_lost, ev_failed>>

\* EventLogSink::flush, lines 455-462: the flag is set and the writer woken.
EF_Call ==
    /\ ef_pc = "idle"
    /\ ef_pc' = "waiting"
    /\ ev_immediate' = TRUE
    /\ ef_atCall' = Range(ev_queue)
                        \cup UNION {Range(ew_batch[i]) : i \in Contexts}
    /\ UNCHANGED ef_success
    /\ EventFlushFrame

\* flush, lines 465-476: wait_for returns true once the queue is empty and
\* the flag cleared; after 30 seconds it returns false and flush clears the
\* flag itself.
EF_Return ==
    /\ ef_pc = "waiting"
    /\ ef_pc' = "idle"
    /\ ef_success' = (ev_queue = <<>> /\ ~ev_immediate)
    /\ ev_immediate' = FALSE
    /\ UNCHANGED ef_atCall
    /\ EventFlushFrame

EventNext ==
    \/ \E n \in 1..MaxEventBatch : EventConsume(n)
    \/ EW_Top
    \/ EW_Wake
    \/ EP_Timer
    \/ \E i \in Contexts : EP_Run(i)
    \/ \E i \in Contexts : \E F \in SUBSET Range(ew_batch[i]) : EW_Process(i, F)
    \/ \E i \in Contexts : EW_After(i)
    \/ EF_Call
    \/ EF_Return

\* The EventLogSink, with its own thread or with a thread manager, beside a
\* Logger and a FileLogger that are constructed and left alone.
EventSpecInit ==
    /\ LoggerInitWith(<<>>)
    /\ m_maxQueue = MaxQueueCap
    /\ m_policy = "Block"
    /\ m_profile = "Strong"
    /\ FileInit
    /\ DiskInit
    /\ m_maxFileBytes = MaxFileBytesCap
    /\ m_rotateCount = MaxRotateCount
    /\ EventInit
    /\ NoRecord
    /\ SendInit
    /\ m_hEventLog

EventSpec == EventSpecInit /\ [][EventNext]_vars

\* The EventLogSink with its own writer thread (no thread manager).
EventThreadNext ==
    \/ \E n \in 1..MaxEventBatch : EventConsume(n)
    \/ EW_Top
    \/ EW_Wake
    \/ \E F \in SUBSET Range(ew_batch[1]) : EW_Process(1, F)
    \/ EW_After(1)
    \/ EF_Call
    \/ EF_Return

EventThreadInit == EventSpecInit /\ ~ev_pool

EventThreadSpec == EventThreadInit /\ [][EventThreadNext]_vars

\* C24: at most one writer context of the EventLogSink holds a popped batch
\* that it is sending, with its own thread and with the recurring task.
C24_SingleWriterContext ==
    Cardinality({i \in Contexts : ew_pc[i] = "process"}) <= 1

\* C25: the lines reach sendEventWide in the order in which consume() was
\* handed their records: in batch order within a batch, and an earlier batch
\* before a later one.
C25_SinkOrder ==
    \A i \in 1..Len(ev_sent) : \A j \in 1..Len(ev_sent) :
        i < j => ev_sent[i] < ev_sent[j]

\* C27: after a consume() of a batch of at most MAX_QUEUE_SIZE lines the
\* queue holds at most MAX_QUEUE_SIZE lines; what was removed is a prefix of
\* the old queue, the batch is appended in order, and m_dropped grows by the
\* number of lines removed.
C27_EventQueueBound ==
    /\ [](Len(ev_queue) <= MAX_QUEUE_SIZE)
    /\ [][(ev_nextLine' # ev_nextLine) =>
             LET n == ev_nextLine' - ev_nextLine
                 k == Len(ev_queue) + n - Len(ev_queue')
             IN  /\ k \in 0..Len(ev_queue)
                 /\ ev_queue' = DropFirst(ev_queue, k)
                                    \o [i \in 1..n |-> ev_nextLine + i - 1]
                 /\ ev_lost' = ev_lost \cup {ev_queue[i] : i \in 1..k}
                 /\ ev_dropped' = ev_dropped + k]_vars

\* A consume() has evicted a line from the front of the queue, and the
\* queue holds MAX_QUEUE_SIZE lines, all of them newer than an evicted one.
C27_Witness ==
    /\ ev_lost # {}
    /\ Len(ev_queue) = MAX_QUEUE_SIZE
    /\ \E l \in ev_lost : \A i \in 1..Len(ev_queue) : l < ev_queue[i]

\* C28: when flush() returns with isSuccessfullyFlushed true, every line
\* accepted before the call has been passed to sendEventWide or evicted and
\* counted, and m_immediate_flush_requested is false.
C28_EventFlush ==
    [][(ef_pc = "waiting" /\ ef_pc' = "idle" /\ ef_success')
          => (ef_atCall \subseteq (Range(ev_sent) \cup ev_lost)
                 /\ ~ev_immediate')]_vars



\* ------------------------------------------------ serialization of a record
\* Logger.cpp, escapeJsonString, lines 27-28.
MAX_CONTROL_CHAR == 32
HEX_DIGIT_MASK == 15

\* The characters a message is made of, as UTF-8 byte sequences: a letter,
\* the quote, the backslash, the newline, the control character 0x01, DEL
\* (0x7f) and U+00E9, a character of two bytes.
MsgChars == {<<97>>, <<34>>, <<92>>, <<10>>, <<1>>, <<127>>, <<195, 169>>}

RECURSIVE Flatten(_)
Flatten(ss) == IF ss = <<>> THEN <<>> ELSE Head(ss) \o Flatten(Tail(ss))

\* The messages: every string of at most MaxMsgChars characters.
Messages ==
    UNION {{Flatten(cs) : cs \in [1..n -> MsgChars]} : n \in 0..MaxMsgChars}

\* The snapshot ids of the records that have one: "s" and "ssss".
SnapshotId == <<115>>
LongSnapshotId == <<115, 115, 115, 115>>

\* The value of a byte read as signed char (line 49).
AsSignedChar(b) == IF b >= 128 THEN b - 256 ELSE b

\* hexdigits[n], line 70: "0123456789abcdef".
hexdigits(n) == IF n < 10 THEN 48 + n ELSE 87 + n

\* escapeJsonString, lines 33-39: the bytes counted as needing an escape,
\* read as unsigned char.
escape_count(input) ==
    Cardinality({i \in 1..Len(input) :
        input[i] < MAX_CONTROL_CHAR \/ input[i] = 92 \/ input[i] = 34})

\* escapeJsonString, lines 51-79: the switch on one byte, read as signed
\* char.  (c >> 4) & HEX_DIGIT_MASK and c & HEX_DIGIT_MASK are taken of the
\* two's complement value.
EscapeSwitch(b) ==
    LET c == AsSignedChar(b) IN
    CASE b = 34 -> <<92, 34>>
      [] b = 92 -> <<92, 92>>
      [] b = 8 -> <<92, 98>>
      [] b = 12 -> <<92, 102>>
      [] b = 10 -> <<92, 110>>
      [] b = 13 -> <<92, 114>>
      [] b = 9 -> <<92, 116>>
      [] OTHER ->
           IF c < MAX_CONTROL_CHAR
           THEN <<92, 117, 48, 48,
                  hexdigits((c \div 16) % (HEX_DIGIT_MASK + 1)),
                  hexdigits(c % (HEX_DIGIT_MASK + 1))>>
           ELSE <<b>>

\* escapeJsonString, lines 46-82: the second loop.
EscapeLoop(input) ==
    Flatten([i \in 1..Len(input) |-> EscapeSwitch(input[i])])

\* escapeJsonString, lines 25-83.
escapeJsonString(input) ==
    IF escape_count(input) = 0 THEN input ELSE EscapeLoop(input)

\* The fields of the record that is serialized: timestamp "T", level Info,
\* pid 7, tid "1"; operation, key_path, value_name, before, after, source
\* and metadata are empty.
JsonKey(name) == <<34>> \o name \o <<34, 58>>
JsonString(value) == <<34>> \o escapeJsonString(value) \o <<34>>
Key_ts == <<64, 116, 115>>
Key_lvl == <<108, 118, 108>>
Key_msg == <<109, 115, 103>>
Key_snap == <<115, 110, 97, 112>>
Key_pid == <<112, 105, 100>>
Key_tid == <<116, 105, 100>>

\* LogRecord::toNDJsonLine, lines 94-144.
toNDJsonLine(message, snapshot_id) ==
    <<123>>
    \o JsonKey(Key_ts) \o JsonString(<<84>>)
    \o <<44>> \o JsonKey(Key_lvl) \o <<34, 48 + Info, 34>>
    \o (IF message # <<>>
        THEN <<44>> \o JsonKey(Key_msg) \o JsonString(message)
        ELSE <<>>)
    \o (IF snapshot_id # <<>>
        THEN <<44>> \o JsonKey(Key_snap) \o JsonString(snapshot_id[1])
        ELSE <<>>)
    \o <<44>> \o JsonKey(Key_pid) \o <<55>>
    \o <<44>> \o JsonKey(Key_tid) \o JsonString(<<49>>)
    \o <<125, 10>>

\* ---- reading a line back: UTF-8 and JSON (RFC 3629, RFC 8259)
\* The replacement character U+FFFD.
ReplacementChar == 65533

\* The character that starts at byte i of s, and the number of bytes it
\* takes.  A byte that starts no well-formed sequence (a lead byte without
\* its continuation byte, a stray continuation byte) decodes to U+FFFD, as
\* MultiByteToWideChar(CP_UTF8, 0, ...) does.  The model's strings hold
\* sequences of one and two bytes only.
DecodeAt(s, i) ==
    IF s[i] < 128 THEN [cp |-> s[i], len |-> 1]
    ELSE IF /\ s[i] \in 194..223
            /\ i + 1 <= Len(s)
            /\ s[i + 1] \in 128..191
         THEN [cp |-> (s[i] - 192) * 64 + (s[i + 1] - 128), len |-> 2]
         ELSE [cp |-> ReplacementChar, len |-> 1]

RECURSIVE DecodeFrom(_, _)
DecodeFrom(s, i) ==
    IF i > Len(s) THEN <<>>
    ELSE LET d == DecodeAt(s, i) IN <<d.cp>> \o DecodeFrom(s, i + d.len)

\* EventLogSink::utf8ToWide, lines 108-131: the UTF-16 code units of a UTF-8
\* string (all characters of the model are below U+10000).
utf8ToWide(utf8) == IF utf8 = <<>> THEN <<>> ELSE DecodeFrom(utf8, 1)

\* The value of a hexadecimal digit, -1 for any other byte.
HexValue(b) ==
    IF b \in 48..57 THEN b - 48
    ELSE IF b \in 97..102 THEN b - 87
    ELSE IF b \in 65..70 THEN b - 55
    ELSE 0 - 1

\* The character a two-character escape stands for, -1 if there is none.
SimpleEscape(b) ==
    CASE b = 34 -> 34
      [] b = 92 -> 92
      [] b = 47 -> 47
      [] b = 98 -> 8
      [] b = 102 -> 12
      [] b = 110 -> 10
      [] b = 114 -> 13
      [] b = 116 -> 9
      [] OTHER -> 0 - 1

ScanFail(i) == [ok |-> FALSE, val |-> <<>>, next |-> i]

\* A JSON parser reading a string: s[i] is the first byte after the opening
\* quote.  The value is the sequence of the string's characters; next is the
\* position after the closing quote.  A raw control character, an unknown
\* escape and a missing closing quote are errors.
RECURSIVE ScanString(_, _, _)
ScanString(s, i, acc) ==
    IF i > Len(s) THEN ScanFail(i)
    ELSE IF s[i] = 34 THEN [ok |-> TRUE, val |-> acc, next |-> i + 1]
    ELSE IF s[i] < 32 THEN ScanFail(i)
    ELSE IF s[i] = 92 THEN
        IF i + 1 > Len(s) THEN ScanFail(i)
        ELSE IF s[i + 1] = 117 THEN
            IF \/ i + 5 > Len(s)
               \/ \E j \in 2..5 : HexValue(s[i + j]) < 0
            THEN ScanFail(i)
            ELSE ScanString(s, i + 6,
                     acc \o <<HexValue(s[i + 2]) * 4096
                              + HexValue(s[i + 3]) * 256
                              + HexValue(s[i + 4]) * 16
                              + HexValue(s[i + 5])>>)
        ELSE IF SimpleEscape(s[i + 1]) < 0 THEN ScanFail(i)
        ELSE ScanString(s, i + 2, acc \o <<SimpleEscape(s[i + 1])>>)
    ELSE LET d == DecodeAt(s, i) IN ScanString(s, i + d.len, acc \o <<d.cp>>)

\* The position after the digits that start at s[i].
RECURSIVE ScanNumber(_, _)
ScanNumber(s, i) ==
    IF i <= Len(s) /\ s[i] \in 48..57 THEN ScanNumber(s, i + 1) ELSE i

ParseFail == [ok |-> FALSE, obj |-> <<>>, next |-> 0]

\* A JSON parser reading the members of an object whose values are strings
\* or numbers: s[i] is the opening quote of a member's name.  obj maps the
\* names read so far to their values (a number's value is not kept).
RECURSIVE ParseMembers(_, _, _)
ParseMembers(s, i, obj) ==
    IF i > Len(s) \/ s[i] # 34 THEN ParseFail
    ELSE
      LET k == ScanString(s, i + 1, <<>>) IN
      IF ~k.ok \/ k.next + 1 > Len(s) \/ s[k.next] # 58 THEN ParseFail
      ELSE
        LET v == IF s[k.next + 1] = 34
                 THEN ScanString(s, k.next + 2, <<>>)
                 ELSE [ok |-> ScanNumber(s, k.next + 1) > k.next + 1,
                       val |-> <<>>,
                       next |-> ScanNumber(s, k.next + 1)]
        IN
        IF ~v.ok \/ v.next > Len(s) THEN ParseFail
        ELSE
          LET o2 == [x \in DOMAIN obj \cup {k.val} |->
                        IF x = k.val THEN v.val ELSE obj[x]]
          IN
          IF s[v.next] = 44 THEN ParseMembers(s, v.next + 1, o2)
          ELSE IF s[v.next] = 125
               THEN [ok |-> TRUE, obj |-> o2, next |-> v.next + 1]
               ELSE ParseFail

\* The object a line of NDJSON parses to: "{", members, "}", and nothing but
\* line ends after it.
ParseLine(line) ==
    IF Len(line) < 2 \/ line[1] # 123 THEN ParseFail
    ELSE LET p == ParseMembers(line, 2, <<>>) IN
         IF p.ok /\ \A j \in p.next..Len(line) : line[j] \in {10, 13}
         THEN p ELSE ParseFail

\* The msg field a line parses to; a line without the field has the empty
\* message (toNDJsonLine leaves the field of an empty message out).
ParsedMsg(line) ==
    LET p == ParseLine(line) IN
    IF ~p.ok THEN [ok |-> FALSE, msg |-> <<>>]
    ELSE IF utf8ToWide(Key_msg) \in DOMAIN p.obj
         THEN [ok |-> TRUE, msg |-> p.obj[utf8ToWide(Key_msg)]]
         ELSE [ok |-> TRUE, msg |-> <<>>]

\* A single line: one line end, at the end.
SingleLine(line) ==
    /\ line # <<>>
    /\ line[Len(line)] = 10
    /\ \A j \in 1..(Len(line) - 1) : line[j] \notin {10, 13}

\* ---- EventLogSink::consume, lines 204-222
\* "...[TRUNCATED]" and " snap=".
TruncationMarker ==
    <<46, 46, 46, 91, 84, 82, 85, 78, 67, 65, 84, 69, 68, 93>>
SnapPrefix == <<32, 115, 110, 97, 112, 61>>

\* Lines 206-219: the line that is converted, of a serialized line.
Truncate(line, snapshot_id) ==
    IF Len(line) > kMaxPayloadBytes
    THEN SubSeq(line, 1, kMaxPayloadBytes - kTruncateReserve)
         \o TruncationMarker
         \o (IF snapshot_id # <<>> THEN SnapPrefix \o snapshot_id[1]
             ELSE <<>>)
    ELSE line

\* ---- actions
\* record.toNDJsonLine(), line 206.
ToNDJsonLine ==
    /\ rec_pc = "new"
    /\ rec_line' = toNDJsonLine(rec_message, rec_snapshot)
    /\ rec_pc' = "line"
    /\ UNCHANGED <<besideRecord, rec_message, rec_snapshot, prepared_batch>>

\* Lines 208-221: truncation and prepared_batch.push_back(utf8ToWide(line)).
EventPrepare ==
    /\ rec_pc = "line"
    /\ prepared_batch' =
           Append(prepared_batch, utf8ToWide(Truncate(rec_line, rec_snapshot)))
    /\ rec_pc' = "prepared"
    /\ UNCHANGED <<besideRecord, rec_message, rec_snapshot, rec_line>>

RecordNext == ToNDJsonLine \/ EventPrepare

\* One record, for every message and with or without a snapshot id, beside
\* a Logger and sinks that are constructed and left alone.
RecordSpecInit ==
    /\ LoggerInitWith(<<>>)
    /\ m_maxQueue = MaxQueueCap
    /\ m_policy = "Block"
    /\ m_profile = "Strong"
    /\ FileInit
    /\ DiskInit
    /\ m_maxFileBytes = MaxFileBytesCap
    /\ m_rotateCount = MaxRotateCount
    /\ EventInit
    /\ ~ev_pool
    /\ SendInit
    /\ m_hEventLog
    /\ rec_pc = "new"
    /\ rec_message \in Messages
    /\ rec_snapshot \in {<<>>, <<SnapshotId>>, <<LongSnapshotId>>}
    /\ rec_line = <<>>
    /\ prepared_batch = <<>>

RecordSpec == RecordSpecInit /\ [][RecordNext]_vars

\* The escape sequence the format prescribes for one byte of a string:
\* quote, backslash and the control characters below 0x20 are escaped, any
\* other byte stands for itself.
Prescribed(b) ==
    IF b = 34 \/ b = 92 \/ b < 32 THEN EscapeSwitch(b) ELSE <<b>>

\* C29: the line toNDJsonLine() produces is a single line, its JSON parses
\* back to a msg field equal to the original message, and in the escaped
\* message quote, backslash and the control characters below 0x20 are
\* escaped while no other character is altered.
C29_RoundTrip ==
    rec_pc \in {"line", "prepared"} =>
        /\ SingleLine(rec_line)
        /\ ParsedMsg(rec_line).ok
        /\ ParsedMsg(rec_line).msg = utf8ToWide(rec_message)
        /\ escapeJsonString(rec_message)
             = Flatten([i \in 1..Len(rec_message) |->
                          Prescribed(rec_message[i])])

\* C26: consume() enqueues exactly one line for a record; a line within the
\* ceiling is enqueued unchanged; a line above it is enqueued as a prefix of
\* the serialized line followed by the truncation marker and, when the
\* record has a snapshot_id, by " snap=" and that snapshot_id.
C26_Truncation ==
    rec_pc = "prepared" =>
        /\ Len(prepared_batch) = 1
        /\ Len(rec_line) <= kMaxPayloadBytes
             => prepared_batch[1] = utf8ToWide(rec_line)
        /\ Len(rec_line) > kMaxPayloadBytes
             => \E k \in 0..Len(utf8ToWide(rec_line)) :
                    prepared_batch[1] =
                        SubSeq(utf8ToWide(rec_line), 1, k)
                        \o utf8ToWide(TruncationMarker)
                        \o (IF rec_snapshot # <<>>
                            THEN utf8ToWide(SnapPrefix \o rec_snapshot[1])
                            ELSE <<>>)

\* C31: whenever the writer thread of the FileLogger fails to write a buffer
\* that is not empty (writerLoop, lines 282-287), m_dropped increases by the
\* number of lines of that buffer.
C31_LostBufferCounted ==
    [][(/\ fw_pc = "write"
        /\ fw_pc' = "top"
        /\ local_buffer # <<>>
        /\ file_written' = file_written)
       => file_dropped' = file_dropped + Len(local_buffer)]_vars

\* ------------------------------- EventLogSink: processBatch, sendEventWide
\* EventLogSink.h line 90: the level list passed to processBatch (lines 288
\* and 436) holds one element.
log_levels == <<Debug>>

\* sendEventWide, line 334.
max_attempts == 3

\* What a read of levels[i] outside the elements of the vector can yield:
\* any level, or a value that is no level.
LevelReadings == Trace..(Critical + 1)

\* EventLogSink::mapLevelToEventType, lines 133-151.
mapLevelToEventType(level) ==
    CASE level \in {Trace, Debug} -> "EVENTLOG_INFORMATION_TYPE"
      [] level = Info -> "EVENTLOG_SUCCESS"
      [] level = Warn -> "EVENTLOG_WARNING_TYPE"
      [] level = Error -> "EVENTLOG_ERROR_TYPE"
      [] level = Critical -> "EVENTLOG_AUDIT_FAILURE"
      [] OTHER -> "EVENTLOG_INFORMATION_TYPE"

\* The batches: 1..MaxSendBatch lines of records of any level.
SendBatches == UNION {[1..n -> LogLevel] : n \in 1..MaxSendBatch}

\* The line of the batch at position i.
Current == pb_batch[pb_i]

SendHistory ==
    <<pb_added, se_calls, se_reports, se_sends, se_fatal, se_failedFirst,
      se_delivered, se_outOfBounds, se_registered>>

\* processBatch is called with a batch that is not empty (lines 369-376).
PB_Begin(lv) ==
    /\ pb_pc = "idle"
    /\ pb_nextId + Len(lv) - 1 <= MaxSendLines
    /\ pb_batch' = [k \in 1..Len(lv) |->
                       [id |-> pb_nextId + k - 1, level |-> lv[k]]]
    /\ pb_nextId' = pb_nextId + Len(lv)
    /\ pb_i' = 1
    /\ pb_failed' = 0
    /\ pb_pc' = "read"
    /\ UNCHANGED <<besideSend, m_hEventLog, pb_level, pb_second, se_attempt,
                   se_result, SendHistory>>

\* Line 378: levels[i] is evaluated.  Inside log_levels it is the element;
\* outside it the read has no defined result.
PB_Read(v) ==
    /\ pb_pc = "read"
    /\ IF pb_i <= Len(log_levels)
       THEN v = log_levels[pb_i] /\ UNCHANGED se_outOfBounds
       ELSE v \in LevelReadings /\ se_outOfBounds' = TRUE
    /\ pb_level' = v
    /\ pb_second' = FALSE
    /\ pb_pc' = "enter"
    /\ UNCHANGED <<besideSend, m_hEventLog, pb_batch, pb_i, pb_failed,
                   se_attempt, se_result, pb_nextId, pb_added, se_calls,
                   se_reports, se_sends, se_fatal, se_failedFirst,
                   se_delivered, se_registered>>

\* sendEventWide, lines 307-321: with no handle the event source is
\* registered again; reg is the outcome ("ok", "fatal" for
\* ERROR_ACCESS_DENIED or RPC_S_SERVER_UNAVAILABLE, "other").
SE_Enter(reg) ==
    /\ pb_pc = "enter"
    /\ se_sends' = [se_sends EXCEPT ![Current.id] = @ + 1]
    /\ se_calls' = 0
    /\ se_attempt' = 0
    /\ IF m_hEventLog
       THEN /\ reg = "ok"
            /\ pb_pc' = "report"
            /\ UNCHANGED <<m_hEventLog, se_result, se_fatal, se_registered>>
       ELSE /\ se_registered' = se_registered + 1
            /\ IF reg = "ok"
               THEN /\ m_hEventLog' = TRUE
                    /\ pb_pc' = "report"
                    /\ UNCHANGED <<se_result, se_fatal>>
               ELSE /\ se_result' = FALSE
                    /\ pb_pc' = "returned"
                    /\ se_fatal' = IF reg = "fatal"
                                   THEN se_fatal \cup {Current.id}
                                   ELSE se_fatal
                    /\ UNCHANGED m_hEventLog
    /\ UNCHANGED <<besideSend, pb_batch, pb_i, pb_level, pb_second, pb_failed,
                   pb_nextId, pb_added, se_reports, se_failedFirst,
                   se_delivered, se_outOfBounds>>

\* sendEventWide, lines 334-362: one ReportEventW call and what follows it.
\* o is the outcome: "success", "fatal" (ERROR_ACCESS_DENIED or
\* RPC_S_SERVER_UNAVAILABLE), "binding" (RPC_S_INVALID_BINDING: the event
\* source is registered again, rereg is whether that succeeds) or "other".
\* A call without a handle fails.
SE_Report(o, rereg) ==
    /\ pb_pc = "report"
    /\ m_hEventLog \/ o \in {"other", "binding"}
    /\ se_calls' = se_calls + 1
    /\ se_reports' = [se_reports EXCEPT ![Current.id] = @ + 1]
    /\ IF o = "success"
       THEN /\ se_delivered' =
                Append(se_delivered,
                       <<Current.id, Current.level,
                         mapLevelToEventType(pb_level)>>)
            /\ se_result' = TRUE
            /\ pb_pc' = "returned"
            /\ UNCHANGED <<m_hEventLog, se_attempt, se_fatal>>
       ELSE IF o = "fatal"
       THEN /\ se_fatal' = se_fatal \cup {Current.id}
            /\ se_result' = FALSE
            /\ pb_pc' = "returned"
            /\ UNCHANGED <<m_hEventLog, se_attempt, se_delivered>>
       ELSE /\ IF se_attempt < max_attempts - 1
               THEN /\ se_attempt' = se_attempt + 1
                    /\ m_hEventLog' =
                           IF o = "binding" THEN rereg ELSE m_hEventLog
                    /\ UNCHANGED <<se_result, pb_pc>>
               ELSE /\ se_result' = FALSE
                    /\ pb_pc' = "returned"
                    /\ UNCHANGED <<m_hEventLog, se_attempt>>
            /\ UNCHANGED <<se_delivered, se_fatal>>
    /\ UNCHANGED <<besideSend, pb_batch, pb_i, pb_level, pb_second, pb_failed,
                   pb_nextId, pb_added, se_sends, se_failedFirst,
                   se_outOfBounds, se_registered>>

\* processBatch, lines 380-400, after a sendEventWide has returned: the
\* counters, the second send of a line read as Error or Critical (lines
\* 384-387, its result is not used), the next line, and after the last line
\* the addition to m_dropped.
PB_After ==
    /\ pb_pc = "returned"
    /\ LET failed == ~pb_second /\ ~se_result
           again == failed /\ pb_level \in {Error, Critical}
           failed_sends == IF failed THEN pb_failed + 1 ELSE pb_failed
       IN  /\ pb_failed' = failed_sends
           /\ se_failedFirst' = IF failed
                                THEN se_failedFirst \cup {Current.id}
                                ELSE se_failedFirst
           /\ IF again
              THEN /\ pb_second' = TRUE
                   /\ pb_pc' = "enter"
                   /\ UNCHANGED <<pb_i, pb_batch, pb_added>>
              ELSE IF pb_i < Len(pb_batch)
              THEN /\ pb_i' = pb_i + 1
                   /\ pb_pc' = "read"
                   /\ UNCHANGED <<pb_second, pb_batch, pb_added>>
              ELSE /\ pb_added' = pb_added + failed_sends
                   /\ pb_pc' = "idle"
                   /\ pb_batch' = <<>>
                   /\ pb_i' = 1
                   /\ UNCHANGED pb_second
    /\ UNCHANGED <<besideSend, m_hEventLog, pb_level, se_attempt, se_result,
                   pb_nextId, se_calls, se_reports, se_sends, se_fatal,
                   se_delivered, se_outOfBounds, se_registered>>

SendOutcomes == {"success", "fatal", "binding", "other"}

SendNext ==
    \/ \E lv \in SendBatches : PB_Begin(lv)
    \/ \E v \in LevelReadings : PB_Read(v)
    \/ \E reg \in {"ok", "fatal", "other"} : SE_Enter(reg)
    \/ \E o \in SendOutcomes, rereg \in BOOLEAN : SE_Report(o, rereg)
    \/ PB_After

\* The EventLogSink's delivery, whether or not the event source was
\* registered at construction, beside a Logger and sinks that are
\* constructed and left alone.
SendSpecInit ==
    /\ LoggerInitWith(<<>>)
    /\ m_maxQueue = MaxQueueCap
    /\ m_policy = "Block"
    /\ m_profile = "Strong"
    /\ FileInit
    /\ DiskInit
    /\ m_maxFileBytes = MaxFileBytesCap
    /\ m_rotateCount = MaxRotateCount
    /\ EventInit
    /\ ~ev_pool
    /\ NoRecord
    /\ SendInit

SendSpec == SendSpecInit /\ [][SendNext]_vars

\* C32: a send makes at most 3 delivery attempts; after a permission-denied
\* or service-unavailable failure nothing more is attempted for that record;
\* a record whose send fails is counted dropped exactly once; every record
\* of a batch is attempted, and a send that finds no handle registers the
\* event source again.
C32_DeliveryRetry ==
    /\ [](se_calls <= max_attempts)
    /\ [][\A id \in 1..MaxSendLines :
            (se_sends'[id] > se_sends[id] \/ se_reports'[id] > se_reports[id])
                => id \notin se_fatal]_vars
    /\ [](pb_pc = "idle" => pb_added = Cardinality(se_failedFirst))
    /\ [](pb_pc = "idle" =>
            \A id \in 1..(pb_nextId - 1) : se_sends[id] >= 1)
    /\ [][(pb_pc = "enter" /\ ~m_hEventLog)
            => se_registered' = se_registered + 1]_vars

\* C40: every delivered event has the event type of the level of its record,
\* and no read of the level list is outside its elements.
C40_EventLevel ==
    /\ ~se_outOfBounds
    /\ \A k \in 1..Len(se_delivered) :
           se_delivered[k][3] = mapLevelToEventType(se_delivered[k][2])

\* The lines whose consume() call has returned.
Accepted == (1..(nextLine - 1)) \ Ids(cons_lines)

\* C33: once close() has returned, the queue is empty, every line accepted
\* by a consume() call has been written to the file or is covered by the
\* dropped count, and a consume() after close() enqueues nothing and adds
\* the size of its batch to the dropped count.
C33_StoppedState ==
    /\ [](fc_pc = "done" =>
            /\ file_queue = <<>>
            /\ Cardinality(Accepted \ Range(
                   [k \in 1..Len(file_written) |-> file_written[k][1]]))
                 <= file_dropped)
    /\ [][(~file_running /\ nextLine' > nextLine) =>
            /\ file_queue' = file_queue
            /\ file_dropped' = file_dropped + (nextLine' - nextLine)]_vars

\* The records passed to consume() of at least one sink.
PassedToSomeSink ==
    handed \cup (IF called # <<>> THEN Range(batch) ELSE {})

\* The records that have left the queue without a consume() call and are
\* not in a batch on its way to the sinks.
Discarded ==
    {r \in Range(admitted) :
        /\ r \notin Range(m_queue)
        /\ r \notin PassedToSomeSink
        /\ ~(r \in Range(batch) /\ w_pc \in {"inc", "consume"})}

\* C34: a record is never removed from the Logger's queue and discarded
\* without being counted: every admitted record is in the queue, in a batch
\* on its way to the sinks, passed to consume() of a sink, or evicted by
\* DropOldest and counted in m_droppedCount.
C34_NoUncountedLoss ==
    /\ Discarded \subseteq evicted
    /\ m_droppedCount >= Cardinality(evicted)

\* No log() call and no dispatch step is in progress: every producer and the
\* control thread are outside a call, the dispatch thread is not started, at
\* the top of its loop, asleep in wait_for or gone, and m_mutex is free.
AtRest ==
    /\ \A t \in Loggers : pc[t] = "idle"
    /\ w_pc \in {"notStarted", "top", "waiting", "exited"}
    /\ m_mutex = Free

\* C35: at rest, queueSize() is the number of records in the Logger's queue.
C35_QueueSizeAtRest == AtRest => queueSize = Len(m_queue)

\* A batch of MaxBatchLines + 1 long lines: more bytes than ten times
\* m_flushThresholdBytes.
LargeBatch == [i \in 1..(MaxBatchLines + 1) |-> LongLine]

\* The FileLogger with consume() calls of every batch of BatchSizes and of
\* the large batch.
CeilingNext ==
    \/ FileNext
    \/ FileConsume(LargeBatch)

CeilingSpec == FileSpecInit /\ [][CeilingNext]_vars

\* C36: after every consume() call the lines of the FileLogger's queue hold
\* at most 10 * m_flushThresholdBytes bytes in all.
C36_MemoryCeiling ==
    [][nextLine' > nextLine
         => Bytes(file_queue') <= m_flushThresholdBytes * 10]_vars

\* A buffer handed to writeBufferToDisk that holds one line (the writer
\* thread found one line queued): the line in progress ends where the buffer
\* does, at byte handedBytes of the bytes handed so far, and the lines
\* before it end at or below the first byte of the buffer.
LineEndsWritten == totalWritten = handedBytes

\* C37: a rotation never leaves the first part of a line in the archival
\* file and the rest in the new active file: when the active file is
\* renamed (and no call of the operating system has failed, so that the
\* files hold the bytes written so far, in order), the bytes written so far
\* end at the end of a line.
C37_WholeLines ==
    [][(rotations' > rotations /\ ~faults) => LineEndsWritten]_vars

\* The bytes of the lines of a queue of the EventLogSink (wide characters).
EventQueueBytes(q) == Len(q) * EventLineLen * sizeof_wchar_t

\* C38: m_current_queue_memory is the total size of the queued lines, and
\* consume() evicts a queued line only when the number of lines or their
\* bytes, with the batch added, would exceed the ceiling.
C38_MemoryAccounting ==
    /\ [](ev_memory = EventQueueBytes(ev_queue))
    /\ [][ev_lost' # ev_lost =>
            \/ Len(ev_queue) + (ev_nextLine' - ev_nextLine) > MAX_QUEUE_SIZE
            \/ EventQueueBytes(ev_queue)
                 + (ev_nextLine' - ev_nextLine) * EventLineLen
                 > MAX_QUEUE_MEMORY]_vars

\* C39: every line consume() prepares for the queue, truncated or not, has
\* at most kMaxPayloadBytes characters.
C39_PayloadBound ==
    \A k \in 1..Len(prepared_batch) : Len(prepared_batch[k]) <= kMaxPayloadBytes

====
